---- MODULE Spec2Model ----
(***************************************************************************)
(* Reconciliation pipeline of sum_concil.py                                *)
(* (robust_conciliation_duplicates_allowed): loader, duplicate detectors,  *)
(* quality gate, matcher, orphan analysis, aggregation, RECUPERAR          *)
(* classification, variance analysis, fully-reconciled summary, export.    *)
(*                                                                         *)
(* Amounts are integers in cents, so the code's 0.01 tolerance is 1.       *)
(* A table (DataFrame) is a sequence of rows; a dict is a sequence of      *)
(* entries in insertion order.                                             *)
(***************************************************************************)
EXTENDS Integers, Sequences, FiniteSets, TLC

VARIABLES
    folder,             \* the files of ./accounting_files, in glob order
    pc,                 \* position in robust_conciliation_duplicates_allowed
    df_debt, df_credit, \* combined piles
    debt_files, credit_files,   \* individual_files dicts of the two piles
    intra_issues, validation_issues, all_warnings, all_errors,
    merged,
    orphaned_debt_keys, orphaned_credit_keys,
    debt_breakdown, credit_breakdown,
    pending_claims, unexpected_refunds,
    variance_check, variance_report, bad_credit_keys,
    df_full_reconciled,
    report,             \* the sheets of CONCILIATION_FINAL_REPORT.xlsx, or NoReport
    outcome,            \* the last message of the run
    stripped,           \* B1LINE.get_page_skip_mask: the lines of df['stripped']
    mask_pc,            \* position in get_page_skip_mask
    events, ev,         \* the sorted events and the position of the loop
    in_skip_mode, current_start, dash_count, exclusion_ranges,
    skip_mask

vars == <<folder, pc, df_debt, df_credit, debt_files, credit_files,
          intra_issues, validation_issues, all_warnings, all_errors, merged,
          orphaned_debt_keys, orphaned_credit_keys, debt_breakdown,
          credit_breakdown, pending_claims, unexpected_refunds, variance_check,
          variance_report, bad_credit_keys, df_full_reconciled, report, outcome,
          stripped, mask_pc, events, ev, in_skip_mode, current_start, dash_count,
          exclusion_ranges, skip_mask>>

\* the variables of B1LINE.get_page_skip_mask
mask_vars == <<stripped, mask_pc, events, ev, in_skip_mode, current_start, dash_count,
               exclusion_ranges, skip_mask>>

\* the variables of sum_concil.robust_conciliation_duplicates_allowed
concil_vars == <<folder, pc, df_debt, df_credit, debt_files, credit_files,
                 intra_issues, validation_issues, all_warnings, all_errors, merged,
                 orphaned_debt_keys, orphaned_credit_keys, debt_breakdown,
                 credit_breakdown, pending_claims, unexpected_refunds, variance_check,
                 variance_report, bad_credit_keys, df_full_reconciled, report, outcome>>

(***************************************************************************)
(* Bounds of the input space                                               *)
(***************************************************************************)
MaxDebtRows == 3
MaxCreditRows == 2

(***************************************************************************)
(* Program constants                                                       *)
(***************************************************************************)
VarianceTol == 1
IntraOverlapPct == 90
CrossOverlapPct == 95
FingerprintTol == 1
OutlierMinRows == 10

(***************************************************************************)
(* Generic helpers                                                         *)
(***************************************************************************)
Range(s) == {s[i] : i \in DOMAIN s}

Abs(x) == IF x < 0 THEN 0 - x ELSE x

Max2(a, b) == IF a > b THEN a ELSE b

RECURSIVE SumAmtTo(_, _)
SumAmtTo(rows, n) == IF n = 0 THEN 0 ELSE rows[n].amt + SumAmtTo(rows, n - 1)

\* df['Amt_Float'].sum()
SumAmt(rows) == SumAmtTo(rows, Len(rows))

RECURSIVE SumDebtTo(_, _)
SumDebtTo(pairs, n) == IF n = 0 THEN 0 ELSE pairs[n].d.amt + SumDebtTo(pairs, n - 1)

\* merged-like table: sum of the Amt_Float_DEBT column
SumDebt(pairs) == SumDebtTo(pairs, Len(pairs))

RECURSIVE SumCreditTo(_, _)
SumCreditTo(pairs, n) == IF n = 0 THEN 0 ELSE pairs[n].c.amt + SumCreditTo(pairs, n - 1)

\* merged-like table: sum of the Amt_Float_CREDIT column
SumCredit(pairs) == SumCreditTo(pairs, Len(pairs))

RECURSIVE SetToSeq(_)
SetToSeq(S) == IF S = {} THEN <<>>
               ELSE LET x == CHOOSE y \in S : TRUE IN <<x>> \o SetToSeq(S \ {x})

RECURSIVE Flatten(_)
Flatten(ss) == IF ss = <<>> THEN <<>> ELSE Head(ss) \o Flatten(Tail(ss))

\* number of rows of table t that satisfy Test
Count(t, Test(_)) == Cardinality({i \in DOMAIN t : Test(t[i])})

(***************************************************************************)
(* Cell values                                                             *)
(***************************************************************************)
NA == "<NA>"
Blank == {"", " "}

\* str.strip() on the cell values of the model
Strip(s) == IF s = " C1 " THEN "C1"
            ELSE IF s = " OP1 " THEN "OP1"
            ELSE IF s = " SI " THEN "SI"
            ELSE IF s \in Blank THEN ""
            ELSE s

\* str.upper() on the RECUPERAR values of the model
Upper(s) == IF s = "no" THEN "NO"
            ELSE IF s = "si" THEN "SI"
            ELSE IF s = "nan" THEN "NAN"
            ELSE s

\* lines 66-67 then 82-83: blank cells become NA, the others are stripped
CleanKey(s) == IF s \in Blank \/ s = NA THEN NA ELSE Strip(s)

Key(r) == <<r.card, r.op>>

\* set(zip(df[col_card], df[col_op]))
KeySet(t) == {Key(t[i]) : i \in DOMAIN t}

(***************************************************************************)
(* File names: a name is its sequence of tokens, e.g.                      *)
(* <<"m2d-recu", "01.01.2023">> for 'm2d-recu 01.01.2023.xlsx'             *)
(***************************************************************************)
DateTokens == {"01.01.2023", "01.02.2023", "01.03.2023", "01.04.2023", "01.05.2023"}

Lower(tok) == IF tok = "M2D-RECU" THEN "m2d-recu"
              ELSE IF tok = "M6D-DEV" THEN "m6d-dev"
              ELSE tok

NameLower(name) == [i \in DOMAIN name |-> Lower(name[i])]

Contains(name, keyword) == keyword \in Range(NameLower(name))

get_standardized_name(name) ==
    LET dates == {i \in DOMAIN name : name[i] \in DateTokens}
        date_str == IF dates = {} THEN "NO_DATE"
                    ELSE name[CHOOSE i \in dates : \A j \in dates : i <= j]
    IN IF Contains(name, "m2d-recu") THEN <<"M2D-RECU", date_str>>
       ELSE IF Contains(name, "m6d-dev") THEN <<"M6D-DEV", date_str>>
       ELSE <<"UNKNOWN", name>>

(***************************************************************************)
(* 1. LOADER                                                               *)
(***************************************************************************)
\* individual_files[std_name] = df.copy()
DictPut(d, k, v) ==
    IF \E i \in DOMAIN d : d[i].ref = k
    THEN [i \in DOMAIN d |-> IF d[i].ref = k THEN [ref |-> k, rows |-> v] ELSE d[i]]
    ELSE Append(d, [ref |-> k, rows |-> v])

\* astype(str) on a column read with dtype=str: an empty cell is NaN and
\* becomes the text 'nan'
AsStr(cell) == IF cell = "" THEN "nan" ELSE cell

\* Faulty variant: a file without the RECUPERAR column gets 'NO' in every row.
LoadFile_DefaultNo(f) ==
    LET std_name == get_standardized_name(f.name)
        cleaned == [i \in DOMAIN f.rows |->
                      [ref  |-> std_name,
                       card |-> CleanKey(f.rows[i].card),
                       op   |-> CleanKey(f.rows[i].op),
                       amt  |-> f.rows[i].amt,
                       rec  |-> IF f.hasRecuperar
                                THEN Upper(Strip(AsStr(f.rows[i].rec))) ELSE "NO"]]
    IN SelectSeq(cleaned, LAMBDA r : ~(r.card = NA /\ r.op = NA))

\* lines 60-99: one file read, cleaned and tagged
LoadFile(f) ==
    LET std_name == get_standardized_name(f.name)
        cleaned == [i \in DOMAIN f.rows |->
                      [ref  |-> std_name,
                       card |-> CleanKey(f.rows[i].card),
                       op   |-> CleanKey(f.rows[i].op),
                       amt  |-> f.rows[i].amt,
                       rec  |-> IF f.hasRecuperar
                                THEN Upper(Strip(AsStr(f.rows[i].rec))) ELSE "SI"]]
    IN SelectSeq(cleaned, LAMBDA r : ~(r.card = NA /\ r.op = NA))

RECURSIVE LoadFrom(_, _, _)
LoadFrom(files, i, acc) ==
    IF i > Len(files) THEN acc
    ELSE LET f == files[i]
         IN IF ~f.readable \/ ~f.hasKeyCols
            THEN LoadFrom(files, i + 1, acc)
            ELSE LET df == LoadFile(f)
                 IN LoadFrom(files, i + 1,
                        [combined |-> acc.combined \o df,
                         individual |-> DictPut(acc.individual,
                                                get_standardized_name(f.name), df)])

\* Faulty variant: an unreadable file makes the whole pile load fail.
load_pile_UnreadableAborts(dir, label) ==
    LET filter_keyword == IF label = "DEBT" THEN "m2d-recu" ELSE "m6d-dev"
        files == SelectSeq(dir, LAMBDA f : Contains(f.name, filter_keyword))
    IN IF \E i \in DOMAIN files : ~files[i].readable
       THEN [combined |-> <<>>, individual |-> <<>>]
       ELSE LoadFrom(files, 1, [combined |-> <<>>, individual |-> <<>>])

\* Faulty variant: a file without the key headers is skipped after it was
\* stored, so that it has an (empty) entry in the per-file map.
load_pile_SkippedFileStored(dir, label) ==
    LET filter_keyword == IF label = "DEBT" THEN "m2d-recu" ELSE "m6d-dev"
        files == SelectSeq(dir, LAMBDA f : Contains(f.name, filter_keyword))
        skipped == SelectSeq(files, LAMBDA f : f.readable /\ ~f.hasKeyCols)
        loaded == LoadFrom(files, 1, [combined |-> <<>>, individual |-> <<>>])
    IN [combined |-> loaded.combined,
        individual |-> loaded.individual
            \o [i \in DOMAIN skipped |->
                   [ref |-> get_standardized_name(skipped[i].name), rows |-> <<>>]]]

load_pile(dir, label) ==
    LET filter_keyword == IF label = "DEBT" THEN "m2d-recu" ELSE "m6d-dev"
        files == SelectSeq(dir, LAMBDA f : Contains(f.name, filter_keyword))
    IN LoadFrom(files, 1, [combined |-> <<>>, individual |-> <<>>])

(***************************************************************************)
(* INTRA-PILE DUPLICATE DETECTION                                          *)
(***************************************************************************)
\* df[compare_cols]: every column but the Accounting_Ref metadata
Content(r) == [card |-> r.card, op |-> r.op, amt |-> r.amt, rec |-> r.rec]

ContentOf(t) == [i \in DOMAIN t |-> Content(t[i])]

\* sort_values(by=[Card, Operation Number]).reset_index(drop=True) of both
\* tables, then DataFrame.equals: the sort is stable, so the sorted tables
\* are equal exactly when, key by key, the rows of that key are the same
\* sequence in both tables.
SortedByKeyEquals(t1, t2) ==
    /\ Len(t1) = Len(t2)
    /\ \A k \in KeySet(t1) \cup KeySet(t2) :
          SelectSeq(ContentOf(t1), LAMBDA r : Key(r) = k)
            = SelectSeq(ContentOf(t2), LAMBDA r : Key(r) = k)

\* Faulty variant: a high overlap of different key sets is not reported.
IntraPairIssues_NoWarning(e1, e2, label) ==
    LET df1 == e1.rows
        df2 == e2.rows
    IN IF Len(df1) # Len(df2) THEN <<>>
       ELSE IF KeySet(df1) = KeySet(df2)
            THEN IF SortedByKeyEquals(df1, df2)
                 THEN <<[kind |-> "DUPLICATE", label |-> label, a |-> e1.ref, b |-> e2.ref]>>
                 ELSE <<[kind |-> "SUSPICIOUS", label |-> label, a |-> e1.ref, b |-> e2.ref]>>
            ELSE <<>>

\* Faulty variant: the row-count filter is missing.
IntraPairIssues_NoRowFilter(e1, e2, label) ==
    LET df1 == e1.rows
        df2 == e2.rows
        keys1 == KeySet(df1)
        keys2 == KeySet(df2)
        overlap == keys1 \cap keys2
    IN IF keys1 = keys2
       THEN IF SortedByKeyEquals(df1, df2)
            THEN <<[kind |-> "DUPLICATE", label |-> label, a |-> e1.ref, b |-> e2.ref]>>
            ELSE <<[kind |-> "SUSPICIOUS", label |-> label, a |-> e1.ref, b |-> e2.ref]>>
       ELSE IF Cardinality(overlap) * 100 > IntraOverlapPct * Max2(Cardinality(keys1), 1)
            THEN <<[kind |-> "WARNING", label |-> label, a |-> e1.ref, b |-> e2.ref]>>
            ELSE <<>>

\* lines 126-161: the comparison of one pair of files
IntraPairIssues(e1, e2, label) ==
    LET df1 == e1.rows
        df2 == e2.rows
        keys1 == KeySet(df1)
        keys2 == KeySet(df2)
        overlap == keys1 \cap keys2
    IN IF Len(df1) # Len(df2) THEN <<>>
       ELSE IF keys1 = keys2
            THEN IF SortedByKeyEquals(df1, df2)
                 THEN <<[kind |-> "DUPLICATE", label |-> label, a |-> e1.ref, b |-> e2.ref]>>
                 ELSE <<[kind |-> "SUSPICIOUS", label |-> label, a |-> e1.ref, b |-> e2.ref]>>
            ELSE IF Cardinality(overlap) * 100 > IntraOverlapPct * Max2(Cardinality(keys1), 1)
                 THEN <<[kind |-> "WARNING", label |-> label, a |-> e1.ref, b |-> e2.ref]>>
                 ELSE <<>>

check_intra_pile_duplicates(individual_files, label) ==
    LET n == Len(individual_files)
    IN IF n < 2 THEN <<>>
       ELSE Flatten([i \in 1..n |->
                Flatten([j \in 1..n |->
                    IF j > i
                    THEN IntraPairIssues(individual_files[i], individual_files[j], label)
                    ELSE <<>>])])

(***************************************************************************)
(* CROSS-PILE VALIDATION                                                   *)
(***************************************************************************)
\* Check 1: both tables sorted by all compare columns are equal, i.e. they
\* hold the same rows with the same multiplicities.
ExactMatch(df1, df2) ==
    /\ Len(df1) = Len(df2)
    /\ \A v \in Range(ContentOf(df1)) \cup Range(ContentOf(df2)) :
          Count(df1, LAMBDA r : Content(r) = v) = Count(df2, LAMBDA r : Content(r) = v)

\* Check 2: key overlap above 95% with the same number of keys
HighKeyOverlap(df1, df2) ==
    LET debt_keys == KeySet(df1)
        credit_keys == KeySet(df2)
        overlap == debt_keys \cap credit_keys
    IN /\ Cardinality(overlap) * 100 > CrossOverlapPct * Max2(Cardinality(debt_keys), 1)
       /\ Cardinality(debt_keys) = Cardinality(credit_keys)

\* Check 3: sums within 0.01, means within 0.01, same row count
SameFingerprint(df1, df2) ==
    LET debt_sum == SumAmt(df1)
        credit_sum == SumAmt(df2)
    IN /\ Abs(debt_sum - credit_sum) < FingerprintTol
       /\ Abs(debt_sum * Len(df2) - credit_sum * Len(df1)) < FingerprintTol * Len(df1) * Len(df2)
       /\ Len(df1) = Len(df2)

\* Check 4: the type tokens of the source references coincide
SameSourceTypes(df1, df2) ==
    {df1[i].ref[1] : i \in DOMAIN df1} = {df2[i].ref[1] : i \in DOMAIN df2}

validate_files_are_different(df1, df2) ==
    (IF ExactMatch(df1, df2) THEN <<"EXACT MATCH">> ELSE <<>>)
    \o (IF HighKeyOverlap(df1, df2) THEN <<"SUSPICIOUS OVERLAP">> ELSE <<>>)
    \o (IF SameFingerprint(df1, df2) THEN <<"SUSPICIOUS FINGERPRINT">> ELSE <<>>)
    \o (IF SameSourceTypes(df1, df2) THEN <<"WARNING SAME TYPE">> ELSE <<>>)

(***************************************************************************)
(* DATA QUALITY VALIDATIONS                                                *)
(***************************************************************************)
\* Check 3: amounts above mean + 3*std (sample std), files of more than
\* 10 rows; in integers: (n*a - S)^2 * (n-1) > 9 * Sum_i (n*x_i - S)^2
HasOutliers(df) ==
    LET n == Len(df)
        S == SumAmt(df)
        dev == [i \in DOMAIN df |-> [amt |-> (n * df[i].amt - S) * (n * df[i].amt - S)]]
        ss == SumAmt(dev)
    IN /\ n > OutlierMinRows
       /\ ss > 0
       /\ \E i \in DOMAIN df : /\ n * df[i].amt - S > 0
                               /\ dev[i].amt * (n - 1) > 9 * ss

quality_warnings(df, label) ==
    (IF \E i \in DOMAIN df : df[i].amt < 0 THEN <<[kind |-> "negative", label |-> label]>> ELSE <<>>)
    \o (IF \E i \in DOMAIN df : df[i].amt = 0 THEN <<[kind |-> "zero", label |-> label]>> ELSE <<>>)
    \o (IF HasOutliers(df) THEN <<[kind |-> "outliers", label |-> label]>> ELSE <<>>)
    \o (IF \E i, j \in DOMAIN df : i # j /\ Key(df[i]) = Key(df[j]) /\ df[i].ref = df[j].ref
           /\ df[i].card # NA /\ df[i].op # NA
        THEN <<[kind |-> "internal duplicates", label |-> label]>> ELSE <<>>)

quality_errors(df, label) ==
    (IF \E i \in DOMAIN df : df[i].card = NA \/ df[i].card = ""
        THEN <<[kind |-> "empty card", label |-> label]>> ELSE <<>>)
    \o (IF \E i \in DOMAIN df : df[i].op = NA \/ df[i].op = ""
        THEN <<[kind |-> "empty operation", label |-> label]>> ELSE <<>>)
    \o (IF \E i \in DOMAIN df : df[i].card # NA /\ Strip(df[i].card) = ""
        THEN <<[kind |-> "whitespace card", label |-> label]>> ELSE <<>>)

\* check_data_quality returns (warnings, errors)
check_data_quality(df, label) ==
    [warnings |-> quality_warnings(df, label), errors |-> quality_errors(df, label)]

\* lines 332-345: the checks run over the entries of the two dicts
QualityOver(individual_files, side) ==
    [i \in DOMAIN individual_files |->
        check_data_quality(individual_files[i].rows, <<side, individual_files[i].ref>>)]

(***************************************************************************)
(* 2. MATCHING                                                             *)
(***************************************************************************)
\* Faulty variant: a join that keeps only the first credit row of each key
\* (the credit side deduplicated before the join).
MergeInner_DedupCredit(left, right) ==
    Flatten([i \in DOMAIN left |->
        LET hits == SelectSeq(right, LAMBDA c : Key(c) = Key(left[i]))
        IN IF hits = <<>> THEN <<>> ELSE <<[d |-> left[i], c |-> hits[1]]>>])

\* pd.merge(df_debt, df_credit, on=[Card, Operation Number], how='inner'):
\* one row per (debt row, credit row) with equal keys; NA keys match too.
MergeInner(left, right) ==
    Flatten([i \in DOMAIN left |->
        LET hits == SelectSeq(right, LAMBDA c : Key(c) = Key(left[i]))
        IN [j \in DOMAIN hits |-> [d |-> left[i], c |-> hits[j]]]])

\* set(zip(merged[col_card], merged[col_op]))
MergedKeys(m) == {Key(m[i].d) : i \in DOMAIN m}

\* lines 395-397: debt keys absent from the matched set (informational)
OrphanedDebtKeys(debt, m) == KeySet(debt) \ MergedKeys(m)

\* Faulty variant: no credit key is ever reported as orphaned.
OrphanedCreditKeys_None(credit, m) == {}

\* lines 400-401: credit keys absent from the matched set (blocking)
OrphanedCreditKeys(credit, m) == KeySet(credit) \ MergedKeys(m)

(***************************************************************************)
(* 3. AGGREGATION                                                          *)
(***************************************************************************)
\* merged.groupby([Accounting_Ref_DEBT, Accounting_Ref_CREDIT]).agg(count, sum of Amt_Float_DEBT)
DebtBreakdown(m) ==
    {[debt_file |-> g[1], credit_file |-> g[2],
      Count_Operations |-> Len(SelectSeq(m, LAMBDA p : p.d.ref = g[1] /\ p.c.ref = g[2])),
      Total_Conciliated_Amount |->
          SumDebt(SelectSeq(m, LAMBDA p : p.d.ref = g[1] /\ p.c.ref = g[2]))]
     : g \in {<<m[i].d.ref, m[i].c.ref>> : i \in DOMAIN m}}

\* merged.groupby([Accounting_Ref_CREDIT, Accounting_Ref_DEBT]).agg(count, sum of Amt_Float_DEBT)
CreditBreakdown(m) ==
    {[credit_file |-> g[1], debt_file |-> g[2],
      Count_Operations |-> Len(SelectSeq(m, LAMBDA p : p.c.ref = g[1] /\ p.d.ref = g[2])),
      Total_Conciliated_Amount |->
          SumDebt(SelectSeq(m, LAMBDA p : p.c.ref = g[1] /\ p.d.ref = g[2]))]
     : g \in {<<m[i].c.ref, m[i].d.ref>> : i \in DOMAIN m}}

(***************************************************************************)
(* 4. RECUPERAR LOGIC                                                      *)
(***************************************************************************)
\* Faulty variant: every unmatched debt row is a pending claim, whatever its
\* RECUPERAR value.
PendingClaims_AnyRecuperar(debt, m) ==
    SelectSeq(debt, LAMBDA r : Key(r) \notin MergedKeys(m))

\* Faulty variant: only the pairs marked SI on the debt side are unexpected.
UnexpectedRefunds_OnlySI(m) == SelectSeq(m, LAMBDA p : p.d.rec = "SI")

\* Faulty variant: a debt row counts as matched when its card alone occurs in
\* the merged table.
PendingClaims_ByCard(debt, m) ==
    SelectSeq(debt, LAMBDA r : r.rec = "NO" /\ r.card \notin {k[1] : k \in MergedKeys(m)})

\* 4a: df_debt[(RECUPERAR == 'NO') & ~temp_key.isin(merged_keys)]
PendingClaims(debt, m) ==
    SelectSeq(debt, LAMBDA r : r.rec = "NO" /\ Key(r) \notin MergedKeys(m))

\* 4b: merged[RECUPERAR_DEBT != 'NO']
UnexpectedRefunds(m) == SelectSeq(m, LAMBDA p : p.d.rec # "NO")

(***************************************************************************)
(* 5. VARIANCE ANALYSIS                                                    *)
(***************************************************************************)
get_status(v) == IF v > 0 THEN "OVERPAID (Refund > Debts)" ELSE "UNDERPAID (Refund < Debts)"

\* merged.groupby([Accounting_Ref_CREDIT, Card, Operation Number, Amt_Float_CREDIT])
\*       .agg(sum and count of Amt_Float_DEBT); groupby drops NA group keys
VarianceGroup(m, g) ==
    SelectSeq(m, LAMBDA p : p.c.ref = g[1] /\ p.c.card = g[2] /\ p.c.op = g[3] /\ p.c.amt = g[4])

VarianceCheck(m) ==
    {[Credit_File |-> g[1], Card |-> g[2], Operation |-> g[3], Refund_Amount |-> g[4],
      Total_Debts_Covered |-> SumDebt(VarianceGroup(m, g)),
      Count_Debts |-> Len(VarianceGroup(m, g)),
      Variance |-> g[4] - SumDebt(VarianceGroup(m, g))]
     : g \in {<<m[i].c.ref, m[i].c.card, m[i].c.op, m[i].c.amt>> :
                  i \in {j \in DOMAIN m : m[j].c.card # NA /\ m[j].c.op # NA}}}

\* Faulty variant: the tolerance test is >= 0.01 instead of > 0.01.
VarianceReport_AtLeastTol(vc) ==
    {[Credit_File |-> v.Credit_File, Card |-> v.Card, Operation |-> v.Operation,
      Refund_Amount |-> v.Refund_Amount, Total_Debts_Covered |-> v.Total_Debts_Covered,
      Count_Debts |-> v.Count_Debts, Variance |-> v.Variance,
      Status |-> get_status(v.Variance)]
     : v \in {w \in vc : Abs(w.Variance) >= VarianceTol}}

\* variance_check[Variance.abs() > 0.01] with the Status column
VarianceReport(vc) ==
    {[Credit_File |-> v.Credit_File, Card |-> v.Card, Operation |-> v.Operation,
      Refund_Amount |-> v.Refund_Amount, Total_Debts_Covered |-> v.Total_Debts_Covered,
      Count_Debts |-> v.Count_Debts, Variance |-> v.Variance,
      Status |-> get_status(v.Variance)]
     : v \in {w \in vc : Abs(w.Variance) > VarianceTol}}

BadCreditKeys(vr) == {<<v.Credit_File, v.Card, v.Operation>> : v \in vr}

(***************************************************************************)
(* 4c. FULLY RECONCILED SUMMARY                                            *)
(***************************************************************************)
\* lines 578-581
RelevantMerged(m, filename) ==
    SelectSeq(m, LAMBDA p : p.d.ref = filename /\ p.d.rec = "NO")

\* Faulty variant: CHECK 3 (no matching credit with variance) is left out.
Qualifies_NoVarianceCheck(filename, debt, m, pending, unexpected, bad) ==
    LET group == SelectSeq(debt, LAMBDA r : r.ref = filename)
        total_no == SelectSeq(group, LAMBDA r : r.rec = "NO")
        matched_no == SelectSeq(total_no, LAMBDA r : Key(r) \in MergedKeys(m))
    IN /\ total_no # <<>>
       /\ filename \notin {pending[i].ref : i \in DOMAIN pending}
       /\ filename \notin {unexpected[i].d.ref : i \in DOMAIN unexpected}
       /\ Len(total_no) = Len(matched_no)

\* Faulty variant: CHECK 1 and CHECK 2 are left out, a file qualifies as soon
\* as one of its RECUPERAR = NO rows is matched without variance.
Qualifies_AnyCleanMatch(filename, debt, m, pending, unexpected, bad) ==
    LET relevant_merged == RelevantMerged(m, filename)
    IN \E i \in DOMAIN relevant_merged :
          <<relevant_merged[i].c.ref, relevant_merged[i].c.card, relevant_merged[i].c.op>> \notin bad

\* lines 557-593: does the debt file pass the strict checks
Qualifies(filename, debt, m, pending, unexpected, bad) ==
    LET group == SelectSeq(debt, LAMBDA r : r.ref = filename)
        total_no == SelectSeq(group, LAMBDA r : r.rec = "NO")
        matched_no == SelectSeq(total_no, LAMBDA r : Key(r) \in MergedKeys(m))
        relevant_merged == RelevantMerged(m, filename)
    IN /\ total_no # <<>>
       /\ filename \notin {pending[i].ref : i \in DOMAIN pending}
       /\ filename \notin {unexpected[i].d.ref : i \in DOMAIN unexpected}
       /\ Len(total_no) = Len(matched_no)
       /\ ~\E i \in DOMAIN relevant_merged :
              <<relevant_merged[i].c.ref, relevant_merged[i].c.card, relevant_merged[i].c.op>> \in bad

\* Faulty variant: one row per matched pair instead of one per credit file.
CreditorBreakdown_PerPair(m, filename) ==
    LET relevant_merged == RelevantMerged(m, filename)
    IN [k \in DOMAIN relevant_merged |->
          [debtor |-> filename, creditor |-> relevant_merged[k].c.ref,
           amount |-> relevant_merged[k].d.amt]]

\* lines 596-608: relevant_merged.groupby(Accounting_Ref_CREDIT), one row per creditor
CreditorBreakdown(m, filename) ==
    LET relevant_merged == RelevantMerged(m, filename)
        creditors == SetToSeq({relevant_merged[i].c.ref : i \in DOMAIN relevant_merged})
    IN [k \in DOMAIN creditors |->
          [debtor |-> filename, creditor |-> creditors[k],
           amount |-> SumDebt(SelectSeq(relevant_merged, LAMBDA p : p.c.ref = creditors[k]))]]

FullyReconciledFiles(debt, m, pending, unexpected, bad) ==
    LET names == SetToSeq({debt[i].ref : i \in DOMAIN debt})
    IN Flatten([k \in DOMAIN names |->
          IF Qualifies(names[k], debt, m, pending, unexpected, bad)
          THEN CreditorBreakdown(m, names[k]) ELSE <<>>])

TotalLabel == <<"TOTAL">>

\* lines 610-625: the TOTAL row is appended when the table is not empty
WithTotalRow(rows) ==
    IF rows = <<>> THEN <<>>
    ELSE Append(rows, [debtor |-> TotalLabel, creditor |-> <<>>, amount |-> SumAmtTo(
                   [i \in DOMAIN rows |-> [amt |-> rows[i].amount]], Len(rows))])

(***************************************************************************)
(* Input space: the contents of ./accounting_files                         *)
(***************************************************************************)
File(name, hasRecuperar, rows) ==
    [name |-> name, readable |-> TRUE, hasKeyCols |-> TRUE,
     hasRecuperar |-> hasRecuperar, rows |-> rows]

Row(card, op, amt, rec) == [card |-> card, op |-> op, amt |-> amt, rec |-> rec]

\* non-decreasing sequences of length n over lo..hi: one representative per
\* multiset of row types (row order inside a file is not varied here)
RECURSIVE NonDecreasing(_, _, _)
NonDecreasing(n, lo, hi) ==
    IF n = 0 THEN {<<>>}
    ELSE UNION {{<<i>> \o t : t \in NonDecreasing(n - 1, i, hi)} : i \in lo..hi}

UpTo(maxLen, count) == UNION {NonDecreasing(n, 0, count - 1) : n \in 0..maxLen}

GenKeys == << <<"C1", "OP1">>, <<"C1", "OP2">> >>
GenRecs == <<"NO", "SI">>
GenDebtAmts == <<1, 2>>
GenCreditAmts == <<1, 3>>
GenDebtNames == << <<"m2d-recu", "01.01.2023">>, <<"M2D-RECU", "01.02.2023">> >>
GenCreditNames == << <<"m6d-dev", "01.01.2023">>, <<"m6d-dev", "01.02.2023">> >>

\* debt rows of two files, the amount fixed by the file
DebtTypeByFile(i) ==
    LET k == GenKeys[((i \div 4) % 2) + 1]
    IN [file |-> (i % 2) + 1,
        row |-> Row(k[1], k[2], GenDebtAmts[(i % 2) + 1], GenRecs[((i \div 2) % 2) + 1])]

\* debt rows of one file, the amount free
DebtTypeByAmount(i) ==
    LET k == GenKeys[((i \div 4) % 2) + 1]
    IN [file |-> 1,
        row |-> Row(k[1], k[2], GenDebtAmts[(i % 2) + 1], GenRecs[((i \div 2) % 2) + 1])]

\* credit rows of two files, the amount fixed by the file
CreditTypeByFile(i) ==
    LET k == GenKeys[((i \div 2) % 2) + 1]
    IN [file |-> (i % 2) + 1, row |-> Row(k[1], k[2], GenCreditAmts[(i % 2) + 1], "")]

\* credit rows of one file, the amount free
CreditTypeByAmount(i) ==
    LET k == GenKeys[((i \div 2) % 2) + 1]
    IN [file |-> 1, row |-> Row(k[1], k[2], GenCreditAmts[(i % 2) + 1], "")]

\* the files named by a choice of row types; a name without rows is absent
FilesOf(names, hasRecuperar, choice, Type(_)) ==
    Flatten([n \in DOMAIN names |->
        LET sel == SelectSeq(choice, LAMBDA i : Type(i).file = n)
        IN IF sel = <<>> THEN <<>>
           ELSE <<File(names[n], hasRecuperar, [k \in DOMAIN sel |-> Type(sel[k]).row])>>])

DebtFolders ==
    {FilesOf(GenDebtNames, TRUE, d, DebtTypeByFile) : d \in UpTo(MaxDebtRows, 2 * 2 * 2)}
    \cup {FilesOf(GenDebtNames, TRUE, d, DebtTypeByAmount) : d \in UpTo(MaxDebtRows, 2 * 2 * 2)}

CreditFolders ==
    {FilesOf(GenCreditNames, FALSE, c, CreditTypeByFile) : c \in UpTo(MaxCreditRows, 2 * 2)}
    \cup {FilesOf(GenCreditNames, FALSE, c, CreditTypeByAmount) : c \in UpTo(MaxCreditRows, 2 * 2)}

GeneralInputs == {d \o c : d \in DebtFolders, c \in CreditFolders}

\* small files with blank, padded and lower-case cells
RawCards == <<"C1", " C1 ", "", " ">>
RawOps == <<"OP1", " OP1 ", "">>
RawRecs == <<"NO", "no", " SI ">>

RawRows == {Row(RawCards[i], RawOps[j], 1, RawRecs[k]) :
               i \in DOMAIN RawCards, j \in DOMAIN RawOps, k \in DOMAIN RawRecs}

RawInputs ==
    {<<File(GenDebtNames[1], TRUE, <<r1, r2>>), File(GenCreditNames[1], FALSE, <<r3>>)>>
     : r1 \in RawRows, r2 \in {Row("C1", "OP2", 2, "SI"), Row("", "", 1, "NO")},
       r3 \in {Row("C1", "OP1", 1, ""), Row(" C1 ", " OP1 ", 3, ""), Row("C1", "", 1, "")}}

\* the files of repro_all_regressions.py (amounts in cents)
RegressionFiles ==
    << File(<<"m2d-recu", "01.01.2023">>, TRUE,
            << Row("C1A", "OP1A", 1000, "NO"), Row("C1B", "OP1B", 2000, "SI"),
               Row("C1C", "OP1C", 3000, "NO") >>),
       File(<<"m2d-recu", "01.02.2023">>, TRUE,
            << Row("C2A", "OP2A", 10000, "NO"), Row("C2B", "OP2B", 10000, "NO") >>),
       File(<<"m2d-recu", "01.03.2023">>, TRUE,
            << Row("C3A1", "OP3A1", 5000, "NO"), Row("C3A2", "OP3A2", 5000, "SI") >>),
       File(<<"m2d-recu", "01.04.2023">>, TRUE,
            << Row("C3B1", "OP3B1", 5000, "NO"), Row("C3B2", "OP3B2", 4000, "SI") >>),
       File(<<"m6d-dev", "01.01.2023">>, FALSE,
            << Row("C1B", "OP1B", 2000, ""), Row("C1C", "OP1C", 3000, "") >>),
       File(<<"m6d-dev", "01.02.2023">>, FALSE,
            << Row("C2A", "OP2A", 9000, ""), Row("C2B", "OP2B", 11000, "") >>),
       File(<<"m6d-dev", "01.03.2023">>, FALSE, << Row("C3A2", "OP3A2", 5000, "") >>),
       File(<<"m6d-dev", "01.04.2023">>, FALSE, << Row("C3B2", "OP3B2", 4000, "") >>) >>

\* the files of repro_variance.py
VarianceReproFiles ==
    << File(<<"m2d-recu", "01.01.2023">>, TRUE,
            << Row("CardA", "OpA_Shared", 5000, "SI"), Row("CardA", "OpA_Shared", 5000, "SI"),
               Row("CardB", "OpB1", 6000, "SI"), Row("CardC", "OpC1", 4000, "SI") >>),
       File(<<"m6d-dev", "01.05.2023">>, FALSE,
            << Row("CardA", "OpA_Shared", 10000, ""), Row("CardB", "OpB1", 5000, ""),
               Row("CardC", "OpC1", 5000, "") >>) >>

\* every sub-folder of the regression folder, in the folder's order
RegressionInputs ==
    {SelectSeq(RegressionFiles, LAMBDA f : f.name \in keep)
     : keep \in SUBSET {RegressionFiles[i].name : i \in DOMAIN RegressionFiles}}
    \cup {VarianceReproFiles}

\* a file that pd.read_excel cannot read: the exception is caught per file
Unreadable(name) ==
    [name |-> name, readable |-> FALSE, hasKeyCols |-> FALSE,
     hasRecuperar |-> FALSE, rows |-> <<>>]

\* a readable file without the Card or the Operation Number header
NoKeyCols(name) ==
    [name |-> name, readable |-> TRUE, hasKeyCols |-> FALSE,
     hasRecuperar |-> FALSE, rows |-> <<>>]

\* debt file names, two of them with the same date token
VariantDebtNames ==
    { <<"m2d-recu", "01.01.2023">>, <<"m2d-recu", "copy", "01.01.2023">>,
      <<"m2d-recu", "01.02.2023">> }

\* debt contents: clean, with an empty card, with a zero and a negative
\* amount, with an empty RECUPERAR cell
VariantDebtRows ==
    { << Row("C1", "OP1", 1, "NO") >>,
      << Row("C1", "OP1", 1, "NO"), Row("C1", "OP2", 2, "NO") >>,
      << Row("", "OP2", 2, "NO") >>,
      << Row("C1", "OP1", 0, "NO"), Row("C1", "OP2", 0 - 1, "SI") >>,
      << Row("C1", "OP1", 1, ""), Row("C1", "OP2", 2, "NO") >> }

VariantDebtFiles ==
    {File(n, TRUE, rows) : n \in VariantDebtNames, rows \in VariantDebtRows}
    \cup {Unreadable(n) : n \in VariantDebtNames}
    \cup {NoKeyCols(n) : n \in VariantDebtNames}

VariantCreditNames == { <<"m6d-dev", "01.01.2023">>, <<"m6d-dev", "copy", "01.01.2023">> }

\* credit contents: clean, with an empty operation
VariantCreditRows == { << Row("C1", "OP1", 1, "") >>, << Row("C1", "", 1, "") >> }

VariantCreditFiles ==
    {File(n, FALSE, rows) : n \in VariantCreditNames, rows \in VariantCreditRows}
    \cup {Unreadable(n) : n \in VariantCreditNames}
    \cup {NoKeyCols(n) : n \in VariantCreditNames}

\* one or two distinct files of a pile, in either listing order of glob
OneOrTwo(files) ==
    {<<f>> : f \in files}
    \cup {<<p[1], p[2]>> : p \in {q \in files \X files : q[1].name # q[2].name}}

\* a debt file of more than ten rows: one amount far above the others, a
\* zero amount, a negative amount and a repeated key
OutlierFile ==
    File(<<"m2d-recu", "01.01.2023">>, TRUE,
         [i \in 1..13 |-> IF i = 1 THEN Row("C1", "OP1", 100, "NO")
                          ELSE IF i = 2 THEN Row("C1", "OP2", 0, "NO")
                          ELSE IF i = 3 THEN Row("C1", "OP2", 0 - 1, "NO")
                          ELSE Row("C1", "OP2", 1, "NO")])

\* folders with unreadable files, files without key headers, files that get
\* the same standardized name, rows failing the quality checks
VariantInputs ==
    {d \o <<File(<<"m6d-dev", "01.01.2023">>, FALSE, << Row("C1", "OP1", 1, "") >>)>>
        : d \in OneOrTwo(VariantDebtFiles)}
    \cup {<<File(<<"m2d-recu", "01.01.2023">>, TRUE,
                 << Row("C1", "OP1", 1, "NO"), Row("C1", "OP2", 2, "NO") >>)>> \o c
        : c \in OneOrTwo(VariantCreditFiles)}
    \cup {<<OutlierFile,
            File(<<"m6d-dev", "01.01.2023">>, FALSE, << Row("C1", "OP1", 1, "") >>)>>}

\* operation numbers of the folders built around the 95% overlap threshold
ManyOps ==
    << "N01", "N02", "N03", "N04", "N05", "N06", "N07", "N08", "N09", "N10", "N11",
       "N12", "N13", "N14", "N15", "N16", "N17", "N18", "N19", "N20", "N21" >>

\* n debt keys, n credit keys, n - 1 of them shared: 95.0% overlap for n = 20,
\* 95.2% for n = 21
OverlapFolder(n) ==
    << File(<<"m2d-recu", "01.01.2023">>, TRUE,
            [i \in 1..n |-> Row("C1", ManyOps[i], 1, "NO")]),
       File(<<"m6d-dev", "01.01.2023">>, FALSE,
            [i \in 1..n |-> IF i = 1 THEN Row("C9", "OP9", 3, "")
                            ELSE Row("C1", ManyOps[i], 3, "")]) >>

ThresholdInputs == {OverlapFolder(20), OverlapFolder(21)}

\* contents of the debt files compared pairwise inside the pile: a repeated
\* key, two keys, the same two keys with other amounts, the two keys plus one
\* extra row, two other keys
PairDebtRows ==
    { << Row("C1", "OP1", 1, "NO"), Row("C1", "OP1", 1, "NO") >>,
      << Row("C1", "OP1", 1, "NO"), Row("C1", "OP2", 2, "NO") >>,
      << Row("C1", "OP1", 2, "NO"), Row("C1", "OP2", 1, "NO") >>,
      << Row("C1", "OP1", 1, "NO"), Row("C1", "OP2", 2, "NO"), Row("C1", "OP3", 1, "NO") >>,
      << Row("C1", "OP3", 1, "NO"), Row("C1", "OP4", 1, "SI") >> }

PairDebtFiles ==
    {File(n, TRUE, rows)
        : n \in { <<"m2d-recu", "01.01.2023">>, <<"m2d-recu", "01.02.2023">> },
          rows \in PairDebtRows}

\* two debt files in either listing order of glob, and one credit file
PairInputs ==
    {<<p[1], p[2], File(<<"m6d-dev", "01.01.2023">>, FALSE, << Row("C1", "OP1", 1, "") >>)>>
        : p \in {q \in PairDebtFiles \X PairDebtFiles : q[1].name # q[2].name}}

\* debt files without the RECUPERAR column, alone or next to a debt file that
\* has the column, under another or under the same date token
NoColumnDebtFiles ==
    {File(<<"m2d-recu", "01.01.2023">>, FALSE, rows)
        : rows \in { << Row("C1", "OP1", 1, "") >>, << Row("C1", "OP2", 2, "") >>,
                     << Row("C1", "OP1", 1, ""), Row("C1", "OP2", 2, "") >> }}

WithColumnDebtFiles ==
    {File(n, TRUE, rows)
        : n \in { <<"m2d-recu", "01.02.2023">>, <<"m2d-recu", "copy", "01.01.2023">> },
          rows \in { << Row("C1", "OP3", 1, "NO") >>, << Row("C1", "OP1", 1, "NO") >> }}

NoColumnCreditRows ==
    { << Row("C1", "OP1", 1, "") >>, << Row("C1", "OP3", 1, "") >>,
      << Row("C1", "OP1", 1, ""), Row("C1", "OP3", 1, "") >> }

NoColumnInputs ==
    {d \o <<File(<<"m6d-dev", "01.01.2023">>, FALSE, c)>>
        : d \in {<<x>> : x \in NoColumnDebtFiles}
                \cup {<<x, y>> : x \in NoColumnDebtFiles, y \in WithColumnDebtFiles}
                \cup {<<y, x>> : x \in NoColumnDebtFiles, y \in WithColumnDebtFiles},
          c \in NoColumnCreditRows}

Inputs ==
    GeneralInputs \cup RawInputs \cup RegressionInputs \cup VariantInputs
        \cup ThresholdInputs \cup PairInputs \cup NoColumnInputs

(***************************************************************************)
(* The run                                                                 *)
(***************************************************************************)
NoReport == <<>>

\* the final console messages of the run
AbortIntra == "Conciliation ABORTED: intra-category duplicates"
StopMissing == "Stopping: Missing data."
AbortCross == "Conciliation ABORTED: duplicate file detection"
AbortQuality == "Conciliation ABORTED due to data quality issues."
NoMatches == "No matches found."
AbortOrphans == "Conciliation ABORTED: orphaned credits"
Success == "SUCCESS. Report saved"
ErrorLocked == "ERROR: Please close the output file and run again."

ReportWritten == DOMAIN report # {}

\* get_page_skip_mask is not called by the conciliation run
MaskIdle ==
    /\ stripped = <<>> /\ mask_pc = "idle"
    /\ events = <<>> /\ ev = 1
    /\ in_skip_mode = FALSE /\ current_start = 0 - 1 /\ dash_count = 0
    /\ exclusion_ranges = <<>> /\ skip_mask = <<>>

Init ==
    /\ folder \in Inputs
    /\ pc = "load"
    /\ df_debt = <<>> /\ df_credit = <<>>
    /\ debt_files = <<>> /\ credit_files = <<>>
    /\ intra_issues = <<>> /\ validation_issues = <<>>
    /\ all_warnings = <<>> /\ all_errors = <<>>
    /\ merged = <<>>
    /\ orphaned_debt_keys = {} /\ orphaned_credit_keys = {}
    /\ debt_breakdown = {} /\ credit_breakdown = {}
    /\ pending_claims = <<>> /\ unexpected_refunds = <<>>
    /\ variance_check = {} /\ variance_report = {} /\ bad_credit_keys = {}
    /\ df_full_reconciled = <<>>
    /\ report = NoReport
    /\ outcome = "running"
    /\ MaskIdle

\* lines 166-167
Load ==
    /\ pc = "load"
    /\ df_debt' = load_pile(folder, "DEBT").combined
    /\ debt_files' = load_pile(folder, "DEBT").individual
    /\ df_credit' = load_pile(folder, "CREDIT").combined
    /\ credit_files' = load_pile(folder, "CREDIT").individual
    /\ pc' = "intra"
    /\ UNCHANGED <<mask_vars, folder, intra_issues, validation_issues, all_warnings, all_errors,
                   merged, orphaned_debt_keys, orphaned_credit_keys, debt_breakdown,
                   credit_breakdown, pending_claims, unexpected_refunds, variance_check,
                   variance_report, bad_credit_keys, df_full_reconciled, report, outcome>>

\* Faulty variant: the quality errors are looked at before the intra-pile
\* duplicates.
CheckIntraPile_QualityFirst ==
    /\ pc = "intra"
    /\ LET q == QualityOver(debt_files, "DEBT") \o QualityOver(credit_files, "CREDIT")
           errors == Flatten([i \in DOMAIN q |-> q[i].errors])
           issues == check_intra_pile_duplicates(debt_files, "DEBT")
                       \o check_intra_pile_duplicates(credit_files, "CREDIT")
       IN IF errors # <<>>
          THEN /\ all_errors' = errors
               /\ intra_issues' = <<>>
               /\ pc' = "done" /\ outcome' = AbortQuality
          ELSE /\ all_errors' = <<>>
               /\ intra_issues' = issues
               /\ IF issues # <<>>
                  THEN pc' = "done" /\ outcome' = AbortIntra
                  ELSE pc' = "empty" /\ UNCHANGED outcome
    /\ UNCHANGED <<mask_vars, folder, df_debt, df_credit, debt_files, credit_files,
                   validation_issues, all_warnings,
                   merged, orphaned_debt_keys, orphaned_credit_keys, debt_breakdown,
                   credit_breakdown, pending_claims, unexpected_refunds, variance_check,
                   variance_report, bad_credit_keys, df_full_reconciled, report>>

\* lines 170-186
CheckIntraPile ==
    /\ pc = "intra"
    /\ intra_issues' = check_intra_pile_duplicates(debt_files, "DEBT")
                         \o check_intra_pile_duplicates(credit_files, "CREDIT")
    /\ IF intra_issues' # <<>>
       THEN pc' = "done" /\ outcome' = AbortIntra
       ELSE pc' = "empty" /\ UNCHANGED outcome
    /\ UNCHANGED <<mask_vars, folder, df_debt, df_credit, debt_files, credit_files,
                   validation_issues, all_warnings, all_errors,
                   merged, orphaned_debt_keys, orphaned_credit_keys, debt_breakdown,
                   credit_breakdown, pending_claims, unexpected_refunds, variance_check,
                   variance_report, bad_credit_keys, df_full_reconciled, report>>

\* lines 189-191
CheckEmpty ==
    /\ pc = "empty"
    /\ IF df_debt = <<>> \/ df_credit = <<>>
       THEN pc' = "done" /\ outcome' = StopMissing
       ELSE pc' = "cross" /\ UNCHANGED outcome
    /\ UNCHANGED <<mask_vars, folder, df_debt, df_credit, debt_files, credit_files, intra_issues,
                   validation_issues, all_warnings, all_errors,
                   merged, orphaned_debt_keys, orphaned_credit_keys, debt_breakdown,
                   credit_breakdown, pending_claims, unexpected_refunds, variance_check,
                   variance_report, bad_credit_keys, df_full_reconciled, report>>

\* lines 254-267
ValidateDifferent ==
    /\ pc = "cross"
    /\ validation_issues' = validate_files_are_different(df_debt, df_credit)
    /\ IF validation_issues' # <<>>
       THEN pc' = "done" /\ outcome' = AbortCross
       ELSE pc' = "quality" /\ UNCHANGED outcome
    /\ UNCHANGED <<mask_vars, folder, df_debt, df_credit, debt_files, credit_files, intra_issues,
                   all_warnings, all_errors,
                   merged, orphaned_debt_keys, orphaned_credit_keys, debt_breakdown,
                   credit_breakdown, pending_claims, unexpected_refunds, variance_check,
                   variance_report, bad_credit_keys, df_full_reconciled, report>>

\* Faulty variant: the errors are collected but the run goes on (the return
\* after the error listing is missing).
QualityGate_NoAbort ==
    /\ pc = "quality"
    /\ LET q == QualityOver(debt_files, "DEBT") \o QualityOver(credit_files, "CREDIT")
       IN /\ all_warnings' = Flatten([i \in DOMAIN q |-> q[i].warnings])
          /\ all_errors' = Flatten([i \in DOMAIN q |-> q[i].errors])
    /\ pc' = "match"
    /\ UNCHANGED <<mask_vars, folder, df_debt, df_credit, debt_files, credit_files, intra_issues,
                   validation_issues, outcome,
                   merged, orphaned_debt_keys, orphaned_credit_keys, debt_breakdown,
                   credit_breakdown, pending_claims, unexpected_refunds, variance_check,
                   variance_report, bad_credit_keys, df_full_reconciled, report>>

\* Faulty variant: a warning stops the run like an error does.
QualityGate_WarningsBlock ==
    /\ pc = "quality"
    /\ LET q == QualityOver(debt_files, "DEBT") \o QualityOver(credit_files, "CREDIT")
       IN /\ all_warnings' = Flatten([i \in DOMAIN q |-> q[i].warnings])
          /\ all_errors' = Flatten([i \in DOMAIN q |-> q[i].errors])
    /\ IF all_errors' # <<>> \/ all_warnings' # <<>>
       THEN pc' = "done" /\ outcome' = AbortQuality
       ELSE pc' = "match" /\ UNCHANGED outcome
    /\ UNCHANGED <<mask_vars, folder, df_debt, df_credit, debt_files, credit_files, intra_issues,
                   validation_issues,
                   merged, orphaned_debt_keys, orphaned_credit_keys, debt_breakdown,
                   credit_breakdown, pending_claims, unexpected_refunds, variance_check,
                   variance_report, bad_credit_keys, df_full_reconciled, report>>

\* lines 331-368
QualityGate ==
    /\ pc = "quality"
    /\ LET q == QualityOver(debt_files, "DEBT") \o QualityOver(credit_files, "CREDIT")
       IN /\ all_warnings' = Flatten([i \in DOMAIN q |-> q[i].warnings])
          /\ all_errors' = Flatten([i \in DOMAIN q |-> q[i].errors])
    /\ IF all_errors' # <<>>
       THEN pc' = "done" /\ outcome' = AbortQuality
       ELSE pc' = "match" /\ UNCHANGED outcome
    /\ UNCHANGED <<mask_vars, folder, df_debt, df_credit, debt_files, credit_files, intra_issues,
                   validation_issues,
                   merged, orphaned_debt_keys, orphaned_credit_keys, debt_breakdown,
                   credit_breakdown, pending_claims, unexpected_refunds, variance_check,
                   variance_report, bad_credit_keys, df_full_reconciled, report>>

\* lines 377-387
Match ==
    /\ pc = "match"
    /\ merged' = MergeInner(df_debt, df_credit)
    /\ IF merged' = <<>>
       THEN pc' = "done" /\ outcome' = NoMatches
       ELSE pc' = "orphans" /\ UNCHANGED outcome
    /\ UNCHANGED <<mask_vars, folder, df_debt, df_credit, debt_files, credit_files, intra_issues,
                   validation_issues, all_warnings, all_errors,
                   orphaned_debt_keys, orphaned_credit_keys, debt_breakdown,
                   credit_breakdown, pending_claims, unexpected_refunds, variance_check,
                   variance_report, bad_credit_keys, df_full_reconciled, report>>

\* Faulty variant: unmatched debt keys abort the run too.
OrphanAnalysis_DebtsBlock ==
    /\ pc = "orphans"
    /\ orphaned_debt_keys' = OrphanedDebtKeys(df_debt, merged)
    /\ orphaned_credit_keys' = OrphanedCreditKeys(df_credit, merged)
    /\ IF Cardinality(orphaned_credit_keys') > 0 \/ Cardinality(orphaned_debt_keys') > 0
       THEN pc' = "done" /\ outcome' = AbortOrphans
       ELSE pc' = "aggregate" /\ UNCHANGED outcome
    /\ UNCHANGED <<mask_vars, folder, df_debt, df_credit, debt_files, credit_files, intra_issues,
                   validation_issues, all_warnings, all_errors, merged,
                   debt_breakdown,
                   credit_breakdown, pending_claims, unexpected_refunds, variance_check,
                   variance_report, bad_credit_keys, df_full_reconciled, report>>

\* lines 395-445
OrphanAnalysis ==
    /\ pc = "orphans"
    /\ orphaned_debt_keys' = OrphanedDebtKeys(df_debt, merged)
    /\ orphaned_credit_keys' = OrphanedCreditKeys(df_credit, merged)
    /\ IF Cardinality(orphaned_credit_keys') > 0
       THEN pc' = "done" /\ outcome' = AbortOrphans
       ELSE pc' = "aggregate" /\ UNCHANGED outcome
    /\ UNCHANGED <<mask_vars, folder, df_debt, df_credit, debt_files, credit_files, intra_issues,
                   validation_issues, all_warnings, all_errors, merged,
                   debt_breakdown,
                   credit_breakdown, pending_claims, unexpected_refunds, variance_check,
                   variance_report, bad_credit_keys, df_full_reconciled, report>>

\* lines 457-468
Aggregation ==
    /\ pc = "aggregate"
    /\ debt_breakdown' = DebtBreakdown(merged)
    /\ credit_breakdown' = CreditBreakdown(merged)
    /\ pc' = "recuperar"
    /\ UNCHANGED <<mask_vars, folder, df_debt, df_credit, debt_files, credit_files, intra_issues,
                   validation_issues, all_warnings, all_errors, merged,
                   orphaned_debt_keys, orphaned_credit_keys,
                   pending_claims, unexpected_refunds, variance_check,
                   variance_report, bad_credit_keys, df_full_reconciled, report, outcome>>

\* lines 475-496
Recuperar ==
    /\ pc = "recuperar"
    /\ pending_claims' = PendingClaims(df_debt, merged)
    /\ unexpected_refunds' = UnexpectedRefunds(merged)
    /\ pc' = "variance"
    /\ UNCHANGED <<mask_vars, folder, df_debt, df_credit, debt_files, credit_files, intra_issues,
                   validation_issues, all_warnings, all_errors, merged,
                   orphaned_debt_keys, orphaned_credit_keys, debt_breakdown,
                   credit_breakdown, variance_check,
                   variance_report, bad_credit_keys, df_full_reconciled, report, outcome>>

\* lines 505-546
VarianceAnalysis ==
    /\ pc = "variance"
    /\ variance_check' = VarianceCheck(merged)
    /\ variance_report' = VarianceReport(variance_check')
    /\ bad_credit_keys' = BadCreditKeys(variance_report')
    /\ pc' = "summary"
    /\ UNCHANGED <<mask_vars, folder, df_debt, df_credit, debt_files, credit_files, intra_issues,
                   validation_issues, all_warnings, all_errors, merged,
                   orphaned_debt_keys, orphaned_credit_keys, debt_breakdown,
                   credit_breakdown, pending_claims, unexpected_refunds,
                   df_full_reconciled, report, outcome>>

\* lines 552-625
FullyReconciledSummary ==
    /\ pc = "summary"
    /\ df_full_reconciled' = WithTotalRow(FullyReconciledFiles(
           df_debt, merged, pending_claims, unexpected_refunds, bad_credit_keys))
    /\ pc' = "export"
    /\ UNCHANGED <<mask_vars, folder, df_debt, df_credit, debt_files, credit_files, intra_issues,
                   validation_issues, all_warnings, all_errors, merged,
                   orphaned_debt_keys, orphaned_credit_keys, debt_breakdown,
                   credit_breakdown, pending_claims, unexpected_refunds, variance_check,
                   variance_report, bad_credit_keys, report, outcome>>

\* the sheets written at lines 630-646
Sheets ==
    {"By_Debt_File", "By_Credit_File", "Detailed_Audit_Log"}
    \cup (IF pending_claims # <<>> THEN {"Pending_Claims"} ELSE {})
    \cup (IF unexpected_refunds # <<>> THEN {"Unexpected_Refunds"} ELSE {})
    \cup (IF df_full_reconciled # <<>> THEN {"Fully_Reconciled_Notes"} ELSE {})
    \cup (IF variance_report # {} THEN {"Amount_Variances"} ELSE {})

SheetContent(name) ==
    CASE name = "By_Debt_File" -> debt_breakdown
      [] name = "By_Credit_File" -> credit_breakdown
      [] name = "Pending_Claims" -> pending_claims
      [] name = "Unexpected_Refunds" -> unexpected_refunds
      [] name = "Fully_Reconciled_Notes" -> df_full_reconciled
      [] name = "Amount_Variances" -> variance_report
      [] name = "Detailed_Audit_Log" -> merged

\* lines 628-649: the workbook is written
Export ==
    /\ pc = "export"
    /\ report' = [name \in Sheets |-> SheetContent(name)]
    /\ outcome' = Success
    /\ pc' = "done"
    /\ UNCHANGED <<mask_vars, folder, df_debt, df_credit, debt_files, credit_files, intra_issues,
                   validation_issues, all_warnings, all_errors, merged,
                   orphaned_debt_keys, orphaned_credit_keys, debt_breakdown,
                   credit_breakdown, pending_claims, unexpected_refunds, variance_check,
                   variance_report, bad_credit_keys, df_full_reconciled>>

\* Faulty variant: after the PermissionError the write is tried again.
ExportLocked_Retry ==
    /\ pc = "export"
    /\ outcome' = ErrorLocked
    /\ pc' = "export"
    /\ UNCHANGED <<mask_vars, folder, df_debt, df_credit, debt_files, credit_files, intra_issues,
                   validation_issues, all_warnings, all_errors, merged,
                   orphaned_debt_keys, orphaned_credit_keys, debt_breakdown,
                   credit_breakdown, pending_claims, unexpected_refunds, variance_check,
                   variance_report, bad_credit_keys, df_full_reconciled, report>>

\* lines 651-652: the output file is open elsewhere, PermissionError is caught
ExportLocked ==
    /\ pc = "export"
    /\ outcome' = ErrorLocked
    /\ pc' = "done"
    /\ UNCHANGED <<mask_vars, folder, df_debt, df_credit, debt_files, credit_files, intra_issues,
                   validation_issues, all_warnings, all_errors, merged,
                   orphaned_debt_keys, orphaned_credit_keys, debt_breakdown,
                   credit_breakdown, pending_claims, unexpected_refunds, variance_check,
                   variance_report, bad_credit_keys, df_full_reconciled, report>>

Next ==
    \/ Load
    \/ CheckIntraPile
    \/ CheckEmpty
    \/ ValidateDifferent
    \/ QualityGate
    \/ Match
    \/ OrphanAnalysis
    \/ Aggregation
    \/ Recuperar
    \/ VarianceAnalysis
    \/ FullyReconciledSummary
    \/ Export
    \/ ExportLocked

Spec == Init /\ [][Next]_vars

\* The gates of robust_conciliation_duplicates_allowed in their order
\* (lines 166-430), as a function of the folder: the message the run ends
\* with when a gate fires, ToExport when it reaches the export step.
ToExport == "reaches export"

RunOutcome(dir) ==
    LET debt == load_pile(dir, "DEBT")
        credit == load_pile(dir, "CREDIT")
        q == QualityOver(debt.individual, "DEBT") \o QualityOver(credit.individual, "CREDIT")
        m == MergeInner(debt.combined, credit.combined)
    IN IF check_intra_pile_duplicates(debt.individual, "DEBT")
            \o check_intra_pile_duplicates(credit.individual, "CREDIT") # <<>>
       THEN AbortIntra
       ELSE IF debt.combined = <<>> \/ credit.combined = <<>> THEN StopMissing
       ELSE IF validate_files_are_different(debt.combined, credit.combined) # <<>>
       THEN AbortCross
       ELSE IF Flatten([i \in DOMAIN q |-> q[i].errors]) # <<>> THEN AbortQuality
       ELSE IF m = <<>> THEN NoMatches
       ELSE IF Cardinality(OrphanedCreditKeys(credit.combined, m)) > 0 THEN AbortOrphans
       ELSE ToExport

(***************************************************************************)
(* Properties                                                              *)
(***************************************************************************)
\* the matcher has run
Matched ==
    \/ pc \in {"orphans", "aggregate", "recuperar", "variance", "summary", "export"}
    \/ pc = "done" /\ outcome \in {NoMatches, AbortOrphans, Success, ErrorLocked}

\* the run reached the export step
ReachedExport == pc = "export" \/ (pc = "done" /\ outcome \in {Success, ErrorLocked})

RowsWithKey(t, k) == Count(t, LAMBDA r : Key(r) = k)

PairsWithKey(m, k) == Count(m, LAMBDA p : Key(p.d) = k /\ Key(p.c) = k)

\* C1 (Cartesian-product law): once the matcher has run, for every key the
\* matched set holds exactly N*M pairs, N and M being the numbers of debt and
\* credit rows with that key (so none for a key missing on either side), and
\* it holds nothing else.
C1_CartesianProduct ==
    Matched =>
        /\ \A k \in KeySet(df_debt) \cup KeySet(df_credit) :
              PairsWithKey(merged, k) = RowsWithKey(df_debt, k) * RowsWithKey(df_credit, k)
        /\ \A i \in DOMAIN merged : Key(merged[i].d) = Key(merged[i].c)

\* a key with two debt rows and two credit rows was matched into four pairs,
\* next to a key that only the debt pile holds
C1_Witness ==
    /\ pc = "done" /\ outcome = Success
    /\ \E k \in KeySet(df_debt) :
          /\ RowsWithKey(df_debt, k) = 2
          /\ RowsWithKey(df_credit, k) = 2
          /\ PairsWithKey(merged, k) = 4
    /\ \E k \in KeySet(df_debt) : k \notin KeySet(df_credit) /\ PairsWithKey(merged, k) = 0

\* the breakdowns have been computed
Aggregated == pc \in {"recuperar", "variance", "summary", "export"} \/ ReachedExport

\* the rows of one file of a pile
RowsOfFile(t, ref) == SelectSeq(t, LAMBDA r : r.ref = ref)

\* C2 (debt-side-sum invariant), as claimed: in both breakdowns, the
\* Total_Conciliated_Amount of a (debt file D, credit file C) group is the sum
\* of the amounts of the debt rows of D whose key occurs in C, each debt row
\* counted once however many credit rows of C share its key.
C2_DebtRowsCountedOnce ==
    Aggregated =>
        \A g \in debt_breakdown \cup credit_breakdown :
            g.Total_Conciliated_Amount =
                SumAmt(SelectSeq(RowsOfFile(df_debt, g.debt_file),
                                 LAMBDA r : Key(r) \in KeySet(RowsOfFile(df_credit, g.credit_file))))

\* the run passed the duplicate gates and the quality gate
PassedDuplicateAndQualityGates ==
    pc = "done" /\ outcome \notin {AbortIntra, AbortCross, AbortQuality}

\* C3 (orphaned credits), as claimed: a run that passes the duplicate and
\* quality gates (with two non-empty piles) and has a credit key that no debt
\* row carries ends with the orphaned-credit error and writes no report, also
\* when no credit key matches any debt key.
C3_OrphanCreditsAlwaysOrphanError ==
    (PassedDuplicateAndQualityGates /\ outcome # StopMissing
        /\ KeySet(df_credit) \ KeySet(df_debt) # {})
        => (outcome = AbortOrphans /\ ~ReportWritten)

\* C3 as amended: a run that passes the duplicate, empty-pile and quality gates
\* with a credit key that no debt row carries writes no report; it ends with
\* the orphaned-credit error when some credit key matches a debt key, and with
\* the "No matches found" message when no credit key matches any debt key.
C3_OrphanCreditsBlock ==
    (PassedDuplicateAndQualityGates /\ outcome # StopMissing
        /\ KeySet(df_credit) \ KeySet(df_debt) # {})
        => /\ ~ReportWritten
           /\ outcome = IF KeySet(df_credit) \cap KeySet(df_debt) # {}
                        THEN AbortOrphans ELSE NoMatches

\* a run with one matched and one orphaned credit key ended with the orphan error
C3_Witness ==
    /\ pc = "done" /\ outcome = AbortOrphans /\ ~ReportWritten
    /\ KeySet(df_credit) \ KeySet(df_debt) # {}
    /\ KeySet(df_credit) \cap KeySet(df_debt) # {}

\* folders that differ from dir by one extra debt row whose key no credit row
\* carries, appended to a debt file of dir or placed in a new debt file
ExtraDebtRows(dir) ==
    {Row(k[1], k[2], 1, rec) :
        k \in {<<"C1", "OP1">>, <<"C1", "OP2">>, <<"C9", "OP9">>}
                 \ KeySet(load_pile(dir, "CREDIT").combined),
        rec \in {"NO"}}

WithExtraDebtRow(dir) ==
    {[i \in DOMAIN dir |-> IF i = j THEN [dir[i] EXCEPT !.rows = Append(@, r)] ELSE dir[i]]
        : j \in {i \in DOMAIN dir : Contains(dir[i].name, "m2d-recu")}, r \in ExtraDebtRows(dir)}
    \cup {<<File(<<"m2d-recu", "01.05.2023">>, TRUE, <<r>>)>> \o dir : r \in ExtraDebtRows(dir)}

\* C4 (orphaned debts): a run aborts on orphans only when a credit key has no
\* debt row, never because of debt keys without credit; and adding a debt row
\* whose key matches no credit to a folder does not change whether the run
\* reaches export, provided neither folder trips a duplicate or quality gate.
C4_OrphanDebtsNeverBlock ==
    /\ (pc = "done" /\ outcome = AbortOrphans) => KeySet(df_credit) \ KeySet(df_debt) # {}
    /\ PassedDuplicateAndQualityGates =>
          \A dir2 \in WithExtraDebtRow(folder) :
              LET outcome2 == RunOutcome(dir2)
              IN outcome2 \notin {AbortIntra, AbortCross, AbortQuality}
                     => ((outcome2 = ToExport) <=> ReachedExport)

\* a run with debt keys that no credit matches reached export, and so does
\* the same folder with one more unmatched debt row
C4_Witness ==
    /\ pc = "done" /\ outcome = Success
    /\ orphaned_debt_keys # {}
    /\ \E dir2 \in WithExtraDebtRow(folder) : RunOutcome(dir2) = ToExport

\* the sheets of the written report, empty when the sheet is absent
PendingSheet == IF "Pending_Claims" \in DOMAIN report THEN report["Pending_Claims"] ELSE <<>>

UnexpectedSheet ==
    IF "Unexpected_Refunds" \in DOMAIN report THEN report["Unexpected_Refunds"] ELSE <<>>

VarianceSheet == IF "Amount_Variances" \in DOMAIN report THEN report["Amount_Variances"] ELSE {}

FullyReconciledSheet ==
    IF "Fully_Reconciled_Notes" \in DOMAIN report THEN report["Fully_Reconciled_Notes"] ELSE <<>>

AuditLog == IF "Detailed_Audit_Log" \in DOMAIN report THEN report["Detailed_Audit_Log"] ELSE <<>>

\* the debt files listed in the Fully Reconciled sheet
FullyReconciledDebtFiles ==
    {FullyReconciledSheet[i].debtor : i \in DOMAIN FullyReconciledSheet} \ {TotalLabel}

\* the debt files listed in a Net_Balanced_Files sheet
NetBalancedDebtFiles ==
    IF "Net_Balanced_Files" \in DOMAIN report
    THEN {report["Net_Balanced_Files"][i].Debtor_File : i \in DOMAIN report["Net_Balanced_Files"]}
    ELSE {}

SameGroup(r, v) ==
    /\ r.Credit_File = v.Credit_File /\ r.Card = v.Card
    /\ r.Operation = v.Operation /\ r.Refund_Amount = v.Refund_Amount

\* C5 (variance tolerance): in a written report a variance group is listed in
\* Amount_Variances exactly when |credit_amount - total_debts_covered| > 0.01;
\* a listed group is OVERPAID when the credit amount is the larger and
\* UNDERPAID when it is the smaller; debts of 100 against a credit of 90 give
\* -10 UNDERPAID and against a credit of 110 give +10 OVERPAID.
C5_VarianceTolerance ==
    (pc = "done" /\ outcome = Success) =>
        /\ \A v \in variance_check :
              (\E r \in VarianceSheet : SameGroup(r, v))
                  <=> Abs(v.Refund_Amount - v.Total_Debts_Covered) > 1
        /\ \A r \in VarianceSheet :
              /\ \E v \in variance_check : SameGroup(r, v)
              /\ r.Variance = r.Refund_Amount - r.Total_Debts_Covered
              /\ r.Refund_Amount > r.Total_Debts_Covered => r.Status = "OVERPAID (Refund > Debts)"
              /\ r.Refund_Amount < r.Total_Debts_Covered => r.Status = "UNDERPAID (Refund < Debts)"
        /\ \A v \in variance_check :
              /\ (v.Total_Debts_Covered = 10000 /\ v.Refund_Amount = 9000) =>
                    \E r \in VarianceSheet :
                        SameGroup(r, v) /\ r.Variance = 0 - 1000 /\ r.Status = "UNDERPAID (Refund < Debts)"
              /\ (v.Total_Debts_Covered = 10000 /\ v.Refund_Amount = 11000) =>
                    \E r \in VarianceSheet :
                        SameGroup(r, v) /\ r.Variance = 1000 /\ r.Status = "OVERPAID (Refund > Debts)"

\* the report lists the underpaid C2A and the overpaid C2B of the regression
\* folder and leaves out a matched group without variance
C5_Witness ==
    /\ pc = "done" /\ outcome = Success
    /\ \E r \in VarianceSheet : r.Card = "C2A" /\ r.Variance = 0 - 1000 /\ r.Status = "UNDERPAID (Refund < Debts)"
    /\ \E r \in VarianceSheet : r.Card = "C2B" /\ r.Variance = 1000 /\ r.Status = "OVERPAID (Refund > Debts)"
    /\ \E v \in variance_check : v.Card = "C1C" /\ ~\E r \in VarianceSheet : SameGroup(r, v)

\* the variance groups have been computed
VarianceDone == pc \in {"summary", "export"} \/ ReachedExport

\* C6 (variance analysis), as claimed: for every matched credit row,
\* total_debts_covered is the sum of the amounts of the debt rows that share
\* its key, each debt row counted once, and variance is the credit amount
\* minus that sum, also when the credit file repeats a key with the same amount.
C6_DebtsCoveredOncePerCredit ==
    VarianceDone =>
        \A v \in variance_check :
            /\ v.Total_Debts_Covered =
                   SumAmt(SelectSeq(df_debt, LAMBDA r : Key(r) = <<v.Card, v.Operation>>))
            /\ v.Variance = v.Refund_Amount
                   - SumAmt(SelectSeq(df_debt, LAMBDA r : Key(r) = <<v.Card, v.Operation>>))

Scenario1(f) ==
    LET rows == RowsOfFile(df_debt, f)
    IN /\ \E i \in DOMAIN rows : rows[i].rec = "NO" /\ Key(rows[i]) \notin KeySet(df_credit)
       /\ \E i \in DOMAIN rows : rows[i].rec = "SI" /\ Key(rows[i]) \in KeySet(df_credit)
       /\ \E i \in DOMAIN rows :
             /\ rows[i].rec = "NO" /\ Key(rows[i]) \in KeySet(df_credit)
             /\ \A v \in variance_check :
                   <<v.Card, v.Operation>> = Key(rows[i]) => v.Variance = 0

\* the classification part of scenario 1: the unmatched NO rows of f are
\* pending claims and its matched SI rows are unexpected refunds
Scenario1Classified(f) ==
    LET rows == RowsOfFile(df_debt, f)
    IN /\ \A i \in DOMAIN rows :
             (rows[i].rec = "NO" /\ Key(rows[i]) \notin KeySet(df_credit))
                 => \E j \in DOMAIN PendingSheet : PendingSheet[j] = rows[i]
       /\ \A i \in DOMAIN rows :
             (rows[i].rec = "SI" /\ Key(rows[i]) \in KeySet(df_credit))
                 => \E j \in DOMAIN UnexpectedSheet : UnexpectedSheet[j].d = rows[i]

SumPending(f) == SumAmt(SelectSeq(PendingSheet, LAMBDA r : r.ref = f))

\* sum of the credit amounts of the unexpected refunds of debt file f
SumUnexpected(f) == SumCredit(SelectSeq(UnexpectedSheet, LAMBDA p : p.d.ref = f))

\* C9 (net-balance resolver), as claimed: a debt file that is not fully
\* reconciled and appears in PendingClaims or UnexpectedRefunds is listed in a
\* Net_Balanced_Files sheet when its two sums differ by at most 0.01 and are
\* not both zero, and is listed in neither sheet when they differ by more.
C9_NetBalancedClassified ==
    (pc = "done" /\ outcome = Success) =>
        \A f \in {df_debt[i].ref : i \in DOMAIN df_debt} \ FullyReconciledDebtFiles :
            (\/ \E i \in DOMAIN PendingSheet : PendingSheet[i].ref = f
             \/ \E i \in DOMAIN UnexpectedSheet : UnexpectedSheet[i].d.ref = f)
            => IF /\ Abs(SumPending(f) - SumUnexpected(f)) <= 1
                  /\ ~(SumPending(f) = 0 /\ SumUnexpected(f) = 0)
               THEN f \in NetBalancedDebtFiles
               ELSE f \notin NetBalancedDebtFiles /\ f \notin FullyReconciledDebtFiles

\* C10 (no partial output): a report is written only by a run that passed
\* every gate, and a run that aborted at a gate executed no export step and
\* holds no breakdown, classification, variance or summary result.
C10_NoPartialOutput ==
    /\ (ReportWritten \/ ReachedExport) =>
          /\ intra_issues = <<>>
          /\ df_debt # <<>> /\ df_credit # <<>>
          /\ validation_issues = <<>>
          /\ all_errors = <<>>
          /\ merged # <<>>
          /\ orphaned_credit_keys = {}
          /\ KeySet(df_credit) \subseteq KeySet(df_debt)
    /\ ReportWritten => (pc = "done" /\ outcome = Success)
    /\ (pc = "done" /\ outcome \notin {Success, ErrorLocked}) =>
          /\ ~ReportWritten
          /\ debt_breakdown = {} /\ credit_breakdown = {}
          /\ pending_claims = <<>> /\ unexpected_refunds = <<>>
          /\ variance_check = {} /\ variance_report = {} /\ bad_credit_keys = {}
          /\ df_full_reconciled = <<>>

\* a run was stopped by the quality gate with nothing computed or written
C10_Witness ==
    /\ pc = "done" /\ outcome = AbortQuality
    /\ all_errors # <<>> /\ df_debt # <<>> /\ df_credit # <<>>
    /\ ~ReportWritten /\ merged = <<>> /\ debt_breakdown = {}

\* the files of the folder whose rows load_pile put into a pile
LoadedFiles ==
    {folder[i] : i \in {j \in DOMAIN folder :
        /\ folder[j].readable /\ folder[j].hasKeyCols
        /\ Contains(folder[j].name, "m2d-recu") \/ Contains(folder[j].name, "m6d-dev")}}

\* a loaded row of file f has an empty/null card or operation
HasEmptyKey(f) == \E i \in DOMAIN LoadFile(f) : LoadFile(f)[i].card = NA \/ LoadFile(f)[i].op = NA

\* the quality gate let the run through to the matcher
StartedMatching == pc = "match" \/ Matched

\* C11 (quality gate), as claimed: when a loaded file of either pile has a row
\* with an empty/null card or operation, the run never reaches matching and
\* writes no report, also when several files of a pile get the same source
\* reference.
C11_EmptyKeyBlocksEveryFile ==
    (\E f \in LoadedFiles : HasEmptyKey(f)) => (~StartedMatching /\ ~ReportWritten)

\* the quality gate has run
QualityGateRan == StartedMatching \/ (pc = "done" /\ outcome = AbortQuality)

\* the per-file tables the quality checks go through
CheckedTables ==
    {debt_files[i].rows : i \in DOMAIN debt_files}
    \cup {credit_files[i].rows : i \in DOMAIN credit_files}

\* a table with an empty/null card or operation
HasQualityError(t) ==
    \E i \in DOMAIN t : t[i].card \in {NA, ""} \/ t[i].op \in {NA, ""}

\* the kinds of the warnings the gate reported
WarningKinds == {all_warnings[i].kind : i \in DOMAIN all_warnings}

\* C12 (quality warnings): once the quality gate has run, the run proceeds to
\* matching exactly when no checked file has an empty/null card or operation;
\* negative amounts, zero amounts, outliers and internal duplicate keys are
\* reported as warnings only and have no part in the decision.
C12_WarningsNeverBlock ==
    /\ QualityGateRan =>
          (StartedMatching <=> ~\E t \in CheckedTables : HasQualityError(t))
    /\ WarningKinds \subseteq {"negative", "zero", "outliers", "internal duplicates"}
    /\ \A i \in DOMAIN all_errors :
          all_errors[i].kind \notin {"negative", "zero", "outliers", "internal duplicates"}
    /\ QualityGateRan =>
          \A t \in CheckedTables :
              /\ (\E i \in DOMAIN t : t[i].amt < 0) => "negative" \in WarningKinds
              /\ (\E i \in DOMAIN t : t[i].amt = 0) => "zero" \in WarningKinds

\* a run with all four kinds of warning and no error went on to the matcher
C12_Witness ==
    /\ Matched
    /\ WarningKinds = {"negative", "zero", "outliers", "internal duplicates"}
    /\ all_errors = <<>>

\* f and g are two files of the same pile
SamePile(f, g) ==
    \/ Contains(f.name, "m2d-recu") /\ Contains(g.name, "m2d-recu")
    \/ Contains(f.name, "m6d-dev") /\ Contains(g.name, "m6d-dev")

\* two distinct loaded files of one pile with the same keys and the same rows,
\* the source reference apart
IdenticalLoadedFiles ==
    \E f, g \in LoadedFiles :
        /\ f.name # g.name /\ SamePile(f, g)
        /\ KeySet(LoadFile(f)) = KeySet(LoadFile(g))
        /\ ContentOf(LoadFile(f)) = ContentOf(LoadFile(g))

\* C13 (intra-pile duplicate guardrail), as claimed: when two distinct files
\* loaded into the same pile have identical key sets and identical row content
\* apart from the source reference, the run aborts before matching begins,
\* whatever the two file names are.
C13_IdenticalFilesAbort ==
    IdenticalLoadedFiles => ~StartedMatching

\* every debt key has a credit and every credit key a debt, the two piles
\* differ in content and in amount fingerprint, no file trips the intra-pile
\* check and no checked file has a quality error
CompleteReconciliationCase ==
    /\ df_debt # <<>> /\ df_credit # <<>>
    /\ KeySet(df_debt) = KeySet(df_credit)
    /\ ~ExactMatch(df_debt, df_credit)
    /\ ~SameFingerprint(df_debt, df_credit)
    /\ intra_issues = <<>>
    /\ ~\E t \in CheckedTables : HasQualityError(t)

\* C14 (complete reconciliation), as claimed: when the set of debt keys equals
\* the set of credit keys, the piles differ and no quality error exists, the
\* run completes and writes the report, whose Amount_Variances sheet holds
\* exactly the groups of variance above 0.01.
C14_CompleteReconciliationReported ==
    (pc = "done" /\ outcome # ErrorLocked /\ CompleteReconciliationCase) =>
        /\ outcome = Success
        /\ ReportWritten
        /\ VarianceSheet = {r \in variance_report : Abs(r.Variance) > 1}

\* the files of the folder that a pile pattern selects
SelectedFiles ==
    {folder[i] : i \in {j \in DOMAIN folder :
        Contains(folder[j].name, "m2d-recu") \/ Contains(folder[j].name, "m6d-dev")}}

\* the folder without its unreadable files
ReadableFolder == SelectSeq(folder, LAMBDA f : f.readable)

\* the folder without the readable files that lack a key header
KeyedFolder == SelectSeq(folder, LAMBDA f : ~f.readable \/ f.hasKeyCols)

\* the run over the folder is, pile by pile and in its outcome, the run over dir
RunsAs(dir) ==
    /\ pc # "load" =>
          /\ df_debt = load_pile(dir, "DEBT").combined
          /\ debt_files = load_pile(dir, "DEBT").individual
          /\ df_credit = load_pile(dir, "CREDIT").combined
          /\ credit_files = load_pile(dir, "CREDIT").individual
    /\ pc = "done" =>
          IF RunOutcome(dir) = ToExport
          THEN outcome \in {Success, ErrorLocked}
          ELSE outcome = RunOutcome(dir)

\* C15 (unreadable file), as claimed: when a file selected for a pile cannot
\* be read, the run is aborted, never continues to matching with the other
\* files of the pile, and writes no report.
C15_UnreadableFileAborts ==
    (\E f \in SelectedFiles : ~f.readable) => (~StartedMatching /\ ~ReportWritten)

\* C15 as amended: a file that cannot be read is logged and left out; the
\* piles are loaded from the remaining files and the run goes through its gates
\* to the same outcome as if the unreadable file were not in the folder.
C15_UnreadableFileSkipped ==
    (\E f \in SelectedFiles : ~f.readable) => RunsAs(ReadableFolder)

\* a run over a folder with an unreadable debt file wrote its report from the
\* other debt file
C15_Witness ==
    /\ \E f \in SelectedFiles : ~f.readable /\ Contains(f.name, "m2d-recu")
    /\ pc = "done" /\ outcome = Success /\ ReportWritten
    /\ df_debt # <<>>

\* C16 (missing key columns): a file without the card or the operation column
\* contributes no rows and no per-file entry and does not abort the run; the
\* piles, the per-file maps and the outcome are those of the folder without
\* that file.
C16_MissingColumnsSkipped ==
    (\E f \in SelectedFiles : f.readable /\ ~f.hasKeyCols) =>
        /\ RunsAs(KeyedFolder)
        /\ pc # "load" =>
              Len(debt_files) + Len(credit_files)
                  <= Cardinality({get_standardized_name(f.name) : f \in LoadedFiles})

\* a run over a folder with a debt file lacking the key headers wrote its
\* report from the other debt file
C16_Witness ==
    /\ \E f \in SelectedFiles : f.readable /\ ~f.hasKeyCols /\ Contains(f.name, "m2d-recu")
    /\ pc = "done" /\ outcome = Success /\ ReportWritten
    /\ Len(debt_files) = 1

\* debt row r is the debt side of a matched pair of the audit log
IsMatched(r) == \E i \in DOMAIN AuditLog : Key(AuditLog[i].d) = Key(r)

\* C17 (PendingClaim classification): in every written report the
\* Pending_Claims table is exactly the debt rows, in pile order, whose
\* RECUPERAR is NO and whose (card, operation) key has no matched pair; no
\* matched row and no row with another RECUPERAR value is in it.
C17_PendingClaimsExact ==
    ReportWritten =>
        /\ PendingSheet = SelectSeq(df_debt, LAMBDA r : r.rec = "NO" /\ ~IsMatched(r))
        /\ \A i \in DOMAIN PendingSheet :
              PendingSheet[i].rec = "NO" /\ ~IsMatched(PendingSheet[i])

\* a report with a pending claim, written by a run that also had an unmatched
\* debt row not marked NO and a matched debt row marked NO
C17_Witness ==
    /\ ReportWritten
    /\ PendingSheet # <<>>
    /\ \E i \in DOMAIN df_debt : df_debt[i].rec # "NO" /\ ~IsMatched(df_debt[i])
    /\ \E i \in DOMAIN df_debt : df_debt[i].rec = "NO" /\ IsMatched(df_debt[i])

\* C18 (UnexpectedRefund classification): in every written report the
\* Unexpected_Refunds table is exactly the matched pairs, in the order of the
\* audit log, whose debt-side RECUPERAR is not NO; every matched pair is in
\* the table or has a debt side marked NO, never both.
C18_UnexpectedRefundsExact ==
    ReportWritten =>
        /\ UnexpectedSheet = SelectSeq(AuditLog, LAMBDA p : p.d.rec # "NO")
        /\ \A i \in DOMAIN AuditLog :
              (\E j \in DOMAIN UnexpectedSheet : UnexpectedSheet[j] = AuditLog[i])
                  <=> AuditLog[i].d.rec # "NO"

\* a report whose unexpected refunds include a pair with an empty RECUPERAR
\* cell on the debt side, next to a matched pair marked NO
C18_Witness ==
    /\ ReportWritten
    /\ \E j \in DOMAIN UnexpectedSheet : UnexpectedSheet[j].d.rec \notin {"NO", "SI"}
    /\ \E i \in DOMAIN AuditLog : AuditLog[i].d.rec = "NO"

\* validate_files_are_different has run on the two piles
CrossGateRan ==
    \/ pc \in {"quality", "match", "orphans", "aggregate", "recuperar", "variance",
               "summary", "export"}
    \/ pc = "done" /\ outcome \notin {AbortIntra, StopMissing}

\* Check 2 reported its issue
OverlapIssue == \E i \in DOMAIN validation_issues : validation_issues[i] = "SUSPICIOUS OVERLAP"

\* more than 95% of the debt keys occur in the credit pile
OverlapAbove95 ==
    100 * Cardinality(KeySet(df_debt) \cap KeySet(df_credit)) > 95 * Cardinality(KeySet(df_debt))

\* C19 (cross-pile check b), as claimed: the check fires exactly when more
\* than 95% of the debt keys occur in the credit pile and the two piles have
\* the same number of rows; piles of different row counts never trigger it.
C19_OverlapWithEqualRowCounts ==
    CrossGateRan =>
        /\ OverlapIssue <=> (OverlapAbove95 /\ Len(df_debt) = Len(df_credit))
        /\ Len(df_debt) # Len(df_credit) => ~OverlapIssue

\* the debt files that pass the checks of the fully reconciled summary
QualifyingFiles ==
    {f \in {df_debt[i].ref : i \in DOMAIN df_debt} :
        Qualifies(f, df_debt, merged, pending_claims, unexpected_refunds, bad_credit_keys)}

\* the rows of the Fully Reconciled sheet other than the TOTAL row
FullyReconciledBody == SelectSeq(FullyReconciledSheet, LAMBDA r : r.debtor # TotalLabel)

\* sum of the AMOUNT THAT MATCHED column of rows
SumAmounts(rows) == SumAmt([i \in DOMAIN rows |-> [amt |-> rows[i].amount]])

\* C20 (Fully Reconciled sheet shape): in a written report the sheet is absent
\* exactly when no debt file qualifies; otherwise it has one row for every
\* (qualifying debt file, credit file matched to it) pair and no other row but
\* one TOTAL row, which is the last row and whose amount is the sum of the
\* amounts of the other rows.
C20_FullyReconciledSheetShape ==
    ReportWritten =>
        /\ QualifyingFiles = {} <=> "Fully_Reconciled_Notes" \notin DOMAIN report
        /\ QualifyingFiles = {} => FullyReconciledSheet = <<>>
        /\ QualifyingFiles # {} =>
              /\ Len(FullyReconciledSheet) = Len(FullyReconciledBody) + 1
              /\ FullyReconciledSheet[Len(FullyReconciledSheet)].debtor = TotalLabel
              /\ FullyReconciledSheet[Len(FullyReconciledSheet)].amount
                     = SumAmounts(FullyReconciledBody)
              /\ \A i \in DOMAIN FullyReconciledBody :
                    FullyReconciledBody[i].debtor \in QualifyingFiles
              /\ \A f \in QualifyingFiles, c \in {df_credit[i].ref : i \in DOMAIN df_credit} :
                    Len(SelectSeq(FullyReconciledBody,
                                  LAMBDA r : r.debtor = f /\ r.creditor = c))
                      = IF \E i \in DOMAIN AuditLog :
                              AuditLog[i].d.ref = f /\ AuditLog[i].c.ref = c
                        THEN 1 ELSE 0

\* a sheet with the rows of two qualifying debt files followed by the TOTAL row
C20_Witness ==
    /\ ReportWritten
    /\ Len(FullyReconciledSheet) = 3
    /\ FullyReconciledSheet[1].debtor # FullyReconciledSheet[2].debtor
    /\ FullyReconciledSheet[3].debtor = TotalLabel
    /\ FullyReconciledSheet[3].amount
           = FullyReconciledSheet[1].amount + FullyReconciledSheet[2].amount

\* C21 (export lock): a write that fails on the locked output file ends the
\* run with the close-and-retry message and without a report; the failing
\* write is the last step of the run, so the write is attempted once and
\* never retried, and the run ends with a message of the pipeline.
C21_ExportLockReportedOnce ==
    /\ [](outcome = ErrorLocked => (pc = "done" /\ ~ReportWritten))
    /\ [][ /\ (pc = "export" /\ report' = report) => (pc' = "done" /\ outcome' = ErrorLocked)
           /\ pc = "export" => pc' = "done"
           /\ outcome # ErrorLocked ]_vars

\* the export of a run with pending claims found the output file locked
C21_Witness ==
    /\ pc = "done" /\ outcome = ErrorLocked
    /\ pending_claims # <<>> /\ df_full_reconciled # <<>>

\* the pairs of per-file tables of a pile, in the order of the dict
PairsOf(individual_files) ==
    {<<individual_files[q[1]], individual_files[q[2]]>>
        : q \in {r \in (DOMAIN individual_files) \X (DOMAIN individual_files) : r[1] < r[2]}}

LoadedPairs == PairsOf(debt_files) \cup PairsOf(credit_files)

\* the keys shared by the pair are more than 90% of the keys of its first file
KeyOverlapAbove90(p) ==
    Cardinality(KeySet(p[1].rows) \cap KeySet(p[2].rows)) * 100
        > IntraOverlapPct * Cardinality(KeySet(p[1].rows))

IntraGateRan == pc \notin {"load", "intra"}

\* the issues of the intra-pile check that name the two files of the pair
IssuesAbout(p) ==
    SelectSeq(intra_issues, LAMBDA x : {x.a, x.b} = {p[1].ref, p[2].ref})

C23_DifferentRowCountsNeverReported ==
    \A p \in LoadedPairs :
        Len(p[1].rows) # Len(p[2].rows) => IssuesAbout(p) = <<>>

\* a run that passed the intra-pile gate with two debt files of which one is
\* the other plus one extra row
C23_Witness ==
    /\ IntraGateRan /\ intra_issues = <<>> /\ pc # "done"
    /\ \E p \in PairsOf(debt_files) :
          /\ Len(p[2].rows) = Len(p[1].rows) + 1
          /\ ContentOf(p[1].rows) = SubSeq(ContentOf(p[2].rows), 1, Len(p[1].rows))

\* C29 (order independence of the intra-pile check): for two per-file tables
\* of a pile the comparison reports an issue with the first loaded first
\* exactly when it reports one with the second loaded first.
C29_IntraCheckOrderIndependent ==
    \A p \in LoadedPairs :
        (IntraPairIssues(p[1], p[2], "DEBT") # <<>>)
            <=> (IntraPairIssues(p[2], p[1], "DEBT") # <<>>)

\* pending_claims and unexpected_refunds have been computed
RecuperarDone == pc \in {"variance", "summary", "export"} \/ ReachedExport

\* the debt rows of a file marked NO (total_no)
TotalNo(filename) == SelectSeq(df_debt, LAMBDA r : r.ref = filename /\ r.rec = "NO")

PendingFiles == {pending_claims[i].ref : i \in DOMAIN pending_claims}

\* C24 (redundancy of the re-verification): for every debt file with at least
\* one NO row that is the source of no pending claim, every NO row of the
\* file has its key among the merged keys, so the count of NO rows equals the
\* count of matched NO rows.
C24_ReverificationRedundant ==
    RecuperarDone =>
        \A f \in {df_debt[i].ref : i \in DOMAIN df_debt} :
            (TotalNo(f) # <<>> /\ f \notin PendingFiles) =>
                /\ \A i \in DOMAIN TotalNo(f) : Key(TotalNo(f)[i]) \in MergedKeys(merged)
                /\ Len(TotalNo(f))
                     = Len(SelectSeq(TotalNo(f), LAMBDA r : Key(r) \in MergedKeys(merged)))

\* a file with two NO rows and no pending claim next to a file that is the
\* source of a pending claim
C24_Witness ==
    /\ RecuperarDone
    /\ PendingFiles # {}
    /\ \E f \in {df_debt[i].ref : i \in DOMAIN df_debt} :
          f \notin PendingFiles /\ Len(TotalNo(f)) >= 2

\* the loaded debt files that have no RECUPERAR column
NoColumnFiles ==
    {f \in LoadedFiles : Contains(f.name, "m2d-recu") /\ ~f.hasRecuperar}

\* the file is the only loaded debt file with its standardized name
OwnLabel(f) ==
    \A g \in LoadedFiles :
        (Contains(g.name, "m2d-recu")
            /\ get_standardized_name(g.name) = get_standardized_name(f.name)) => g = f

FullyReconciledDebtors == {FullyReconciledBody[i].debtor : i \in DOMAIN FullyReconciledBody}

IntraFinding ==
    check_intra_pile_duplicates(debt_files, "DEBT")
        \o check_intra_pile_duplicates(credit_files, "CREDIT") # <<>>

EmptyPile == df_debt = <<>> \/ df_credit = <<>>

CrossFinding == validate_files_are_different(df_debt, df_credit) # <<>>

QualityErrorPresent ==
    \E t \in CheckedTables : HasQualityError(t)

NoMatchFinding == MergeInner(df_debt, df_credit) = <<>>

OrphanCreditFinding ==
    OrphanedCreditKeys(df_credit, MergeInner(df_debt, df_credit)) # {}

\* the message of the first gate that fires, in the order of the function
FirstGate ==
    IF IntraFinding THEN AbortIntra
    ELSE IF EmptyPile THEN StopMissing
    ELSE IF CrossFinding THEN AbortCross
    ELSE IF QualityErrorPresent THEN AbortQuality
    ELSE IF NoMatchFinding THEN NoMatches
    ELSE IF OrphanCreditFinding THEN AbortOrphans
    ELSE ToExport

\* C26 (gate order): a finished run ends with the message of the first gate,
\* in the order intra-pile, empty pile, cross-pile, quality, empty match,
\* orphaned credits, that fires on the loaded piles; the gates after it are
\* never evaluated, so a run with a duplicate-file finding and a quality
\* error ends at duplicate detection with no quality error collected.
C26_GatesInOrder ==
    pc = "done" =>
        /\ IF FirstGate = ToExport THEN outcome \in {Success, ErrorLocked}
           ELSE outcome = FirstGate
        /\ outcome \in {AbortIntra, StopMissing} => validation_issues = <<>>
        /\ outcome \in {AbortIntra, StopMissing, AbortCross} =>
              (all_errors = <<>> /\ all_warnings = <<>>)
        /\ outcome \in {AbortIntra, StopMissing, AbortCross, AbortQuality} => merged = <<>>
        /\ outcome \in {AbortIntra, StopMissing, AbortCross, AbortQuality, NoMatches} =>
              (orphaned_debt_keys = {} /\ orphaned_credit_keys = {})
        /\ ((IntraFinding \/ (~EmptyPile /\ CrossFinding)) /\ QualityErrorPresent) =>
              (outcome \in {AbortIntra, AbortCross} /\ all_errors = <<>>)

\* a run stopped at the intra-pile gate whose files also hold a quality error
C26_Witness ==
    /\ pc = "done" /\ outcome = AbortIntra
    /\ QualityErrorPresent /\ all_errors = <<>>

\* C27 (covered amount of a fully reconciled file): for every debt file
\* listed in the Fully Reconciled sheet the amounts of its rows, summed over
\* the credit files, equal the sum of the amounts of the file's NO debt rows,
\* each debt row counted once.
C27_CoveredAmountCountsDebtsOnce ==
    ReportWritten =>
        \A f \in FullyReconciledDebtors :
            SumAmounts(SelectSeq(FullyReconciledBody, LAMBDA r : r.debtor = f))
                = SumAmt(TotalNo(f))

\* the per-file tables of a map, one after the other
TablesOf(individual_files) ==
    Flatten([i \in DOMAIN individual_files |-> individual_files[i].rows])

\* C28 (loader consistency): after load_pile the per-file map covers the pile
\* exactly: the per-file tables, one after the other, are the rows of the
\* concatenated pile, so every row of the pile is in one per-file table and
\* the row counts of the tables sum to the row count of the pile.
C28_PerFileMapCoversPile ==
    pc # "load" =>
        /\ TablesOf(debt_files) = df_debt
        /\ TablesOf(credit_files) = df_credit
        /\ Len(TablesOf(debt_files)) = Len(df_debt)
        /\ Len(TablesOf(credit_files)) = Len(df_credit)

(***************************************************************************)
(* B1LINE.get_page_skip_mask: the skip regions of a legacy report          *)
(***************************************************************************)
MaxLines == 5

\* the markers are runs of five or more characters: r'\*{5,}' and r'-{5,}'
MarkerLen == 5

\* a stripped line, by the longest run of '*' and the longest run of '-' in it
LineKinds ==
    {[stars |-> k[1], dashes |-> k[2]]
        : k \in {<<0, 0>>, <<5, 0>>, <<0, 5>>, <<5, 5>>, <<4, 4>>}}

\* df['stripped'].str.contains(r'\*{5,}', regex=True)
IsStar(line) == line.stars >= MarkerLen

\* df['stripped'].str.contains(r'-{5,}', regex=True)
IsDash(line) == line.dashes >= MarkerLen

LineInputs == UNION {[1..n -> LineKinds] : n \in 0..MaxLines}

\* sorted([(i, 'STAR') ...] + [(i, 'DASH') ...]): by line, and on one line
\* 'DASH' before 'STAR'.  Lines are numbered from 1 here, from 0 in the source.
SortedEvents(lines) ==
    Flatten([i \in DOMAIN lines |->
        (IF IsDash(lines[i]) THEN <<[idx |-> i, type |-> "DASH"]>> ELSE <<>>)
        \o (IF IsStar(lines[i]) THEN <<[idx |-> i, type |-> "STAR"]>> ELSE <<>>)])

\* the conciliation run is not part of get_page_skip_mask
ConcilIdle ==
    /\ folder = <<>> /\ pc = "idle"
    /\ df_debt = <<>> /\ df_credit = <<>>
    /\ debt_files = <<>> /\ credit_files = <<>>
    /\ intra_issues = <<>> /\ validation_issues = <<>>
    /\ all_warnings = <<>> /\ all_errors = <<>>
    /\ merged = <<>>
    /\ orphaned_debt_keys = {} /\ orphaned_credit_keys = {}
    /\ debt_breakdown = {} /\ credit_breakdown = {}
    /\ pending_claims = <<>> /\ unexpected_refunds = <<>>
    /\ variance_check = {} /\ variance_report = {} /\ bad_credit_keys = {}
    /\ df_full_reconciled = <<>>
    /\ report = NoReport
    /\ outcome = "running"

MaskInit ==
    /\ stripped \in LineInputs
    /\ mask_pc = "events"
    /\ events = <<>> /\ ev = 1
    /\ in_skip_mode = FALSE /\ current_start = 0 - 1 /\ dash_count = 0
    /\ exclusion_ranges = <<>> /\ skip_mask = <<>>
    /\ ConcilIdle

\* lines 90-109: the events, the empty mask, the early return, the loop state
IdentifyEvents ==
    /\ mask_pc = "events"
    /\ events' = SortedEvents(stripped)
    /\ skip_mask' = [i \in DOMAIN stripped |-> FALSE]
    /\ mask_pc' = IF events' = <<>> THEN "returned" ELSE "loop"
    /\ current_start' = 0 - 1 /\ in_skip_mode' = FALSE /\ dash_count' = 0
    /\ exclusion_ranges' = <<>>
    /\ UNCHANGED <<concil_vars, stripped, ev>>

\* Faulty variant: a '*' line seen in skip mode does not reset the dash count.
ProcessStar_NoReset ==
    /\ mask_pc = "loop" /\ ev <= Len(events) /\ events[ev].type = "STAR"
    /\ IF ~in_skip_mode
       THEN in_skip_mode' = TRUE /\ current_start' = events[ev].idx
       ELSE UNCHANGED <<in_skip_mode, current_start>>
    /\ ev' = ev + 1
    /\ UNCHANGED <<concil_vars, stripped, mask_pc, events, dash_count, exclusion_ranges,
                   skip_mask>>

\* lines 111-122: a STAR event
ProcessStar ==
    /\ mask_pc = "loop" /\ ev <= Len(events) /\ events[ev].type = "STAR"
    /\ IF ~in_skip_mode
       THEN in_skip_mode' = TRUE /\ current_start' = events[ev].idx /\ UNCHANGED dash_count
       ELSE dash_count' = 0 /\ UNCHANGED <<in_skip_mode, current_start>>
    /\ ev' = ev + 1
    /\ UNCHANGED <<concil_vars, stripped, mask_pc, events, exclusion_ranges, skip_mask>>

\* lines 124-132: a DASH event
ProcessDash ==
    /\ mask_pc = "loop" /\ ev <= Len(events) /\ events[ev].type = "DASH"
    /\ IF in_skip_mode
       THEN IF dash_count + 1 >= 2
            THEN /\ in_skip_mode' = FALSE
                 /\ exclusion_ranges' = Append(exclusion_ranges,
                        [start |-> current_start, end |-> events[ev].idx])
                 /\ current_start' = 0 - 1
                 /\ dash_count' = 0
            ELSE /\ dash_count' = dash_count + 1
                 /\ UNCHANGED <<in_skip_mode, exclusion_ranges, current_start>>
       ELSE UNCHANGED <<in_skip_mode, exclusion_ranges, current_start, dash_count>>
    /\ ev' = ev + 1
    /\ UNCHANGED <<concil_vars, stripped, mask_pc, events, skip_mask>>

\* lines 134-136: the file ends while skipping
EndOfEvents ==
    /\ mask_pc = "loop" /\ ev > Len(events)
    /\ exclusion_ranges' =
          IF in_skip_mode /\ current_start # 0 - 1
          THEN Append(exclusion_ranges, [start |-> current_start, end |-> Len(stripped)])
          ELSE exclusion_ranges
    /\ mask_pc' = "fill"
    /\ UNCHANGED <<concil_vars, stripped, events, ev, in_skip_mode, current_start,
                   dash_count, skip_mask>>

\* lines 139-142: skip_mask[start : end + 1] = True for every range
FillMask ==
    /\ mask_pc = "fill"
    /\ skip_mask' = [i \in DOMAIN stripped |->
                        \E k \in DOMAIN exclusion_ranges :
                            exclusion_ranges[k].start <= i /\ i <= exclusion_ranges[k].end]
    /\ mask_pc' = "returned"
    /\ UNCHANGED <<concil_vars, stripped, events, ev, in_skip_mode, current_start,
                   dash_count, exclusion_ranges>>

MaskNext ==
    \/ IdentifyEvents
    \/ ProcessStar
    \/ ProcessDash
    \/ EndOfEvents
    \/ FillMask

MaskSpec == MaskInit /\ [][MaskNext]_vars

\* the mask of a scan that enters skip mode at a '*' line seen outside skip
\* mode and leaves it at the second '-' line seen after entering
RECURSIVE SecondDashAfterEntering(_, _, _, _, _)
SecondDashAfterEntering(lines, i, skipping, dashes, acc) ==
    IF i > Len(lines) THEN acc
    ELSE IF ~skipping
         THEN IF IsStar(lines[i])
              THEN SecondDashAfterEntering(lines, i + 1, TRUE, 0, Append(acc, TRUE))
              ELSE SecondDashAfterEntering(lines, i + 1, FALSE, 0, Append(acc, FALSE))
         ELSE IF IsDash(lines[i]) /\ dashes + 1 = 2
              THEN SecondDashAfterEntering(lines, i + 1, FALSE, 0, Append(acc, TRUE))
              ELSE SecondDashAfterEntering(lines, i + 1, TRUE,
                       IF IsDash(lines[i]) THEN dashes + 1 ELSE dashes, Append(acc, TRUE))

====
